---- MODULE Spec2Model ----
(***************************************************************************)
(* Model of sqld's connection throttler (sqld/src/connection/mod.rs) and   *)
(* of the Hrana WebSocket session (sqld/src/hrana/ws/session.rs).          *)
(***************************************************************************)
EXTENDS Integers, Sequences, FiniteSets, TLC

(***************************************************************************)
(* Bounds of the model.                                                    *)
(***************************************************************************)
NumProcs == 3        \* callers of create() that are modelled step by step
MaxCalls == 3        \* create() calls they make in total
SmallN == 1          \* free permits of the small throttler
LargeN == 20         \* free permits of the large throttler
BgLoad == 126        \* create() calls already in flight in a loaded throttler
MaxJobs == 3         \* jobs a session creates beyond those of its initial state
BusyJobs == 1        \* jobs a session with a full mailbox creates
SqlPreload == 148    \* SQL texts already stored in a loaded session
ProtoJobs == 1       \* jobs a session creates when every request kind is explored
DispatchJobs == 2    \* jobs a session creates beside a stream whose mailbox is full
CaptureJobs == 1     \* jobs a session creates where the jobs' queries are followed
MaxBatch == 3        \* longest batch given to execute_batch_or_rollback
MaxStores == 1       \* store() calls on one DatabaseConfigStore
MaxEntries == 3      \* entries a cursor's producer yields at most
MaxCount == 3        \* largest max_count of a FetchCursor request
MaxFetches == 2      \* FetchCursor requests on one cursor
MaxChunks == 2       \* items the inner byte stream of a dump yields
MaxPolls == 6        \* calls of DumpStream::poll_next
NumStorers == 2      \* threads that call store() on one DatabaseConfigStore
MaxBgDone == 1       \* of which at most this many finish
MaxGauge == 10       \* largest gauge value / maximum of the units_to_take grid

(***************************************************************************)
(* Program constants.                                                      *)
(***************************************************************************)
WaitersLimit == 128
HighUnits == 16
MediumUnits == 4
LowUnits == 1
ThrottleM == 8
MAX_SQL_COUNT == 150
MailboxCap == 8

Procs == 1..NumProcs
GaugeVals == {0, 3, 5}

VARIABLES
    mode,        \* which specification is running
    N,           \* Semaphore::new(conccurency)
    M,           \* max_total_response_size
    timeoutCfg,  \* self.timeout.is_some()
    gauge,       \* TOTAL_RESPONSE_SIZE
    available,   \* free units of the semaphore
    semq,        \* callers parked in the semaphore, in arrival order
    waiters,     \* the AtomicUsize
    pc,          \* position of each caller inside create()
    held,        \* units in the caller's permit (or in its TrackedConnection)
    hist,        \* per call: u1 and u2, the two values of the local `units`;
                 \* whether the factory was invoked; the result
    calls,       \* create() calls made so far
    bgCalls,     \* anonymous calls awaiting the factory, one unit each
    bgDone,      \* anonymous calls that have finished
    upR, upM, upOut  \* the units_to_take grid: inputs and output

tvars == <<N, M, timeoutCfg, gauge, available, semq, waiters, pc, held,
           hist, calls, bgCalls, bgDone>>
uvars == <<upR, upM, upOut>>

VARIABLES
    version,     \* session.version: 1, 2 or 3
    streams,     \* session.streams: stream id -> [w: its worker, cursor_id]
    sqls,        \* session.sqls: sql id -> text
    cursors,     \* session.cursors: cursor id -> stream id
    nworkers,    \* stream workers spawned so far
    box,         \* each worker's mpsc mailbox
    txOpen,      \* whether the mailbox's Sender (the StreamHandle) still exists
    wpc,         \* each worker: "none", "recv", "run" or "done"
    cur,         \* the job a worker is running
    db,          \* stream.db.is_some()
    cursor_hnd,  \* stream.cursor_hnd: 0 for None, else the cursor id
    njobs,       \* jobs created so far; a job's id is its number
    quota,       \* jobs that may still be created
    sent,        \* per worker: ids of the jobs enqueued, in order
    ran,         \* per worker: ids of the jobs executed, in order
    replied,     \* per job: results sent on its one-shot channel
    wlast,       \* per worker: the last result it sent, and whether the
                 \* receiver still existed
    disp,        \* the dispatcher: Ready, Panicked, or the send it is blocked in
    last,        \* outcome of the last request handled
    authenticated, \* session.authenticated: the identity of the last hello
    closure,     \* per job: the query and the identity moved into job.f
    seen,        \* per job: the request's sql reference, and session.sqls and
                 \* session.authenticated when the request was handled
    used         \* per job: the query and the identity it was executed with

qvars == <<closure, seen, used>>

VARIABLES
    batch,       \* execute_batch_or_rollback: the batch, a sequence of statements
    steps,       \* the steps of the Program it builds
    limit,       \* slots of the builder returned by result_builder.take
    outcomes,    \* execute_program: the outcome of each step run so far
    slots,       \* what the caller's builder has received, slot by slot
    txnState,    \* the connection's State: "Init" or "Txn"
    bpc,         \* "call", "run", "ran", "ret" (Ok returned) or "err"
    entry        \* the method of Connection that was called, "none" before

bvars == <<batch, steps, limit, outcomes, slots, txnState, bpc, entry>>

VARIABLES
    files,       \* the database directory: path -> document, or Absent
    snapshot,    \* *self.config.lock(): the in-memory DatabaseConfig
    spc,         \* store(): "idle", "write", "writing", "rename" or "swap"
    config,      \* store(): its argument `config`
    data,        \* store(): the serialized document
    sres,        \* result of the last store(): "none", "Ok" or the error
    prevFile,    \* config.json when the last store() was called
    prevSnap,    \* the snapshot when the last store() was called
    got,         \* what the last get() returned
    loaded,      \* result of the last load() of the directory, and when it ran
    alive,       \* FALSE once the process has crashed
    nstores,     \* store() calls so far
    arcs,        \* the Arc<DatabaseConfig> allocations made so far
    cfgArc,      \* the Arc that self.config holds: an index into arcs
    gotArc,      \* the Arc the last get() returned
    gotAt        \* where store() was when the last get() ran

gvars == <<arcs, cfgArc, gotArc, gotAt>>
cvars == <<files, snapshot, spc, config, data, sres, prevFile, prevSnap, got,
           loaded, alive, nstores, gvars>>
VARIABLES
    prod,        \* the cursor's producer: the size of each entry it yields
    ppos,        \* entries taken from the producer so far
    max_response_size, \* server.max_response_size
    max_count,   \* FetchCursor job: req.max_count
    entries,     \* FetchCursor job: the local Vec, entries named by position
    total_size,  \* FetchCursor job: the local total_size
    done,        \* FetchCursor job: the local done
    fpc,         \* FetchCursor job: "idle", "loop" or "built"
    freply,      \* the response of the last FetchCursor job
    returned,    \* the entries of all Ok responses so far, concatenated
    dropped,     \* positions of the entries taken by jobs that returned Err
    nfetch       \* FetchCursor jobs so far

fvars == <<prod, ppos, max_response_size, max_count, entries, total_size, done,
           fpc, freply, returned, dropped, nfetch>>

VARIABLES
    dall,        \* the inner stream `stream`: every item it yields, in order
    dpos,        \* items the inner stream has yielded so far
    dterm,       \* stream.is_terminated()
    task,        \* the exporter task: "running", "ok", "err" or "panic"
    join_handle, \* self.join_handle.is_some()
    dout,        \* the Ready results of poll_next so far
    dlast,       \* the result of the last poll_next
    npolls       \* calls of poll_next so far

dvars == <<dall, dpos, dterm, task, join_handle, dout, dlast, npolls>>

VARIABLES
    kpc,         \* concurrent store() calls: where each caller is, "idle",
                 \* "write", "rename", "swap" or "done"
    kconfig,     \* the argument `config` of each caller's store()
    kres,        \* what each caller's store() returned, "none" before
    kret         \* config.json and the snapshot when each store() returned Ok

kvars == <<kpc, kconfig, kres, kret>>

\* the components that follow the config store
yvars == <<fvars, dvars, kvars>>
xvars == <<bvars, cvars, yvars>>

svars == <<version, streams, sqls, cursors, nworkers, box, txOpen, wpc, cur, db,
           cursor_hnd, njobs, quota, sent, ran, replied, wlast, disp,
           last, authenticated, qvars>>
vars == <<mode, tvars, uvars, svars, xvars>>

NoHist == [u1 |-> 0, u2 |-> 0, made |-> FALSE, result |-> "none"]
Failed(res) == [NoHist EXCEPT !.result = res]

(***************************************************************************)
(* MakeThrottledConnection::units_to_take                                  *)
(***************************************************************************)
units_to_take_swapped(R, Max) ==
    IF R * 4 > Max THEN MediumUnits
    ELSE IF R * 2 > Max THEN HighUnits
    ELSE LowUnits

units_to_take(R, Max) ==
    IF R * 2 > Max THEN HighUnits
    ELSE IF R * 4 > Max THEN MediumUnits
    ELSE LowUnits

(***************************************************************************)
(* The tokio semaphore: units are handed to parked callers strictly in     *)
(* arrival order, each acquisition all at once.                            *)
(***************************************************************************)
\* the units a parked caller asked for: the local `units` of its acquisition
Need(p, pcs) == IF pcs[p] = "wait1" THEN hist[p].u1 ELSE hist[p].u2

RECURSIVE Grant(_)
Grant(st) ==
    IF st.q = <<>> THEN st
    ELSE LET h == Head(st.q) IN
         IF st.avail < Need(h, st.pc) THEN st
         ELSE Grant([avail |-> st.avail - Need(h, st.pc),
                     q     |-> Tail(st.q),
                     pc    |-> [st.pc EXCEPT ![h] =
                                  IF @ = "wait1" THEN "resample" ELSE "factory"],
                     held  |-> [st.held EXCEPT ![h] = @ + Need(h, st.pc)]])

Without(q, p) == SelectSeq(q, LAMBDA x : x # p)

ReleaseLeak(k, q, pcs, hs) ==
    /\ available' = available
    /\ semq' = q
    /\ pc' = pcs
    /\ held' = hs

\* Return k units to the semaphore and wake the callers it can now serve.
Release(k, q, pcs, hs) ==
    LET st == Grant([avail |-> available + k, q |-> q, pc |-> pcs, held |-> hs])
    IN /\ available' = st.avail
       /\ semq' = st.q
       /\ pc' = st.pc
       /\ held' = st.held

PollOffByOne(p, u, granted, parked) ==
    IF semq = <<>> /\ available + 1 >= u
    THEN /\ available' = available - u
         /\ held' = [held EXCEPT ![p] = @ + u]
         /\ pc' = [pc EXCEPT ![p] = granted]
         /\ semq' = semq
    ELSE /\ semq' = Append(semq, p)
         /\ pc' = [pc EXCEPT ![p] = parked]
         /\ UNCHANGED <<available, held>>

PollBarging(p, u, granted, parked) ==
    IF available >= u
    THEN /\ available' = available - u
         /\ held' = [held EXCEPT ![p] = @ + u]
         /\ pc' = [pc EXCEPT ![p] = granted]
         /\ semq' = semq
    ELSE /\ semq' = Append(semq, p)
         /\ pc' = [pc EXCEPT ![p] = parked]
         /\ UNCHANGED <<available, held>>

\* Poll acquire_many_owned(u) once: granted at once when nobody is parked and
\* u units are free, parked at the tail otherwise.
Poll(p, u, granted, parked) ==
    IF semq = <<>> /\ available >= u
    THEN /\ available' = available - u
         /\ held' = [held EXCEPT ![p] = @ + u]
         /\ pc' = [pc EXCEPT ![p] = granted]
         /\ semq' = semq
    ELSE /\ semq' = Append(semq, p)
         /\ pc' = [pc EXCEPT ![p] = parked]
         /\ UNCHANGED <<available, held>>

(***************************************************************************)
(* MakeThrottledConnection::create, one action per suspension point.       *)
(***************************************************************************)
\* units_to_take() and WaitersGuard::new
Enter(p) ==
    /\ mode = "throttle"
    /\ pc[p] = "idle"
    /\ calls < MaxCalls
    /\ calls' = calls + 1
    /\ hist' = [hist EXCEPT ![p] = [NoHist EXCEPT !.u1 = units_to_take(gauge, M)]]
    /\ waiters' = waiters + 1
    /\ pc' = [pc EXCEPT ![p] = "entered"]
    /\ UNCHANGED <<N, M, timeoutCfg, gauge, available, semq, held, bgCalls,
                   bgDone, mode, uvars, svars, xvars>>

TooManyStrict(w) == w > WaitersLimit

TooMany(w) == w >= WaitersLimit

\* the load of the counter, the TooManyRequests return, the first acquisition
Check(p) ==
    /\ mode = "throttle"
    /\ pc[p] = "entered"
    /\ IF TooMany(waiters)
       THEN /\ hist' = [hist EXCEPT ![p] = Failed("TooManyRequests")]
            /\ pc' = [pc EXCEPT ![p] = "exit"]
            /\ UNCHANGED <<available, held, semq>>
       ELSE /\ Poll(p, hist[p].u1, "resample", "wait1")
            /\ hist' = hist
    /\ UNCHANGED <<N, M, timeoutCfg, gauge, waiters, calls, bgCalls,
                   bgDone, mode, uvars, svars, xvars>>

\* what the second acquisition asks for, given the re-sampled unit cost
Reacquire(u, h) == u

\* the second units_to_take() and the second acquisition
Resample(p) ==
    /\ mode = "throttle"
    /\ pc[p] = "resample"
    /\ LET u == units_to_take(gauge, M) IN
         IF u > 1
         THEN /\ hist' = [hist EXCEPT ![p].u2 = Reacquire(u, held[p])]
              /\ Poll(p, Reacquire(u, held[p]), "factory", "wait2")
         ELSE /\ hist' = [hist EXCEPT ![p].u2 = u]
              /\ pc' = [pc EXCEPT ![p] = "factory"]
              /\ UNCHANGED <<available, held, semq>>
    /\ UNCHANGED <<N, M, timeoutCfg, gauge, waiters, calls, bgCalls, bgDone,
                   mode, uvars, svars, xvars>>

TimeoutLeak(p) ==
    /\ mode = "throttle"
    /\ timeoutCfg
    /\ pc[p] \in {"wait1", "wait2"}
    /\ Release(0, Without(semq, p),
               [pc EXCEPT ![p] = "exit"], [held EXCEPT ![p] = 0])
    /\ hist' = [hist EXCEPT ![p] = Failed("DbCreateTimeout")]
    /\ UNCHANGED <<N, M, timeoutCfg, gauge, waiters, calls, bgCalls,
                   bgDone, mode, uvars, svars, xvars>>

\* timeout(t, fut) elapses while the caller is parked: DbCreateTimeout
Timeout(p) ==
    /\ mode = "throttle"
    /\ timeoutCfg
    /\ pc[p] \in {"wait1", "wait2"}
    /\ Release(held[p], Without(semq, p),
               [pc EXCEPT ![p] = "exit"], [held EXCEPT ![p] = 0])
    /\ hist' = [hist EXCEPT ![p] = Failed("DbCreateTimeout")]
    /\ UNCHANGED <<N, M, timeoutCfg, gauge, waiters, calls, bgCalls,
                   bgDone, mode, uvars, svars, xvars>>

\* self.connection_maker.create().await
Factory(p, ok) ==
    /\ mode = "throttle"
    /\ pc[p] = "factory"
    /\ IF ok
       THEN /\ hist' = [hist EXCEPT ![p].made = TRUE, ![p].result = "Ok"]
            /\ pc' = [pc EXCEPT ![p] = "exit"]
            /\ UNCHANGED <<available, held, semq>>
       ELSE /\ hist' = [hist EXCEPT ![p] = [Failed("FactoryError") EXCEPT !.made = TRUE]]
            /\ Release(held[p], semq,
                       [pc EXCEPT ![p] = "exit"], [held EXCEPT ![p] = 0])
    /\ UNCHANGED <<N, M, timeoutCfg, gauge, waiters, calls, bgCalls,
                   bgDone, mode, uvars, svars, xvars>>

ExitCreateLeaksOnReject(p) ==
    /\ mode = "throttle"
    /\ pc[p] = "exit"
    /\ waiters' = IF hist[p].result = "TooManyRequests" THEN waiters
                  ELSE waiters - 1
    /\ pc' = [pc EXCEPT ![p] = IF hist[p].result = "Ok" THEN "live" ELSE "idle"]
    /\ hist' = [hist EXCEPT ![p] = NoHist]
    /\ UNCHANGED <<N, M, timeoutCfg, gauge, available, semq, held,
                   calls, bgCalls, bgDone, mode, uvars, svars, xvars>>

\* create() returns: the WaitersGuard is dropped
ExitCreate(p) ==
    /\ mode = "throttle"
    /\ pc[p] = "exit"
    /\ waiters' = waiters - 1
    /\ pc' = [pc EXCEPT ![p] = IF hist[p].result = "Ok" THEN "live" ELSE "idle"]
    /\ hist' = [hist EXCEPT ![p] = NoHist]
    /\ UNCHANGED <<N, M, timeoutCfg, gauge, available, semq, held,
                   calls, bgCalls, bgDone, mode, uvars, svars, xvars>>

\* the TrackedConnection is dropped, and its permit with it
DropConn(p) ==
    /\ mode = "throttle"
    /\ pc[p] = "live"
    /\ Release(held[p], semq, [pc EXCEPT ![p] = "idle"], [held EXCEPT ![p] = 0])
    /\ UNCHANGED <<N, M, timeoutCfg, gauge, waiters, hist, calls,
                   bgCalls, bgDone, mode, uvars, svars, xvars>>

\* result builders elsewhere move TOTAL_RESPONSE_SIZE
SetGauge(r) ==
    /\ mode = "throttle"
    /\ r # gauge
    /\ gauge' = r
    /\ UNCHANGED <<N, M, timeoutCfg, available, semq, waiters, pc, held,
                   hist, calls, bgCalls, bgDone, mode, uvars, svars, xvars>>

\* an anonymous call's factory fails: its permit and its guard are dropped
BgFinish ==
    /\ mode = "throttle"
    /\ bgCalls > 0
    /\ bgDone < MaxBgDone
    /\ bgCalls' = bgCalls - 1
    /\ bgDone' = bgDone + 1
    /\ waiters' = waiters - 1
    /\ Release(1, semq, pc, held)
    /\ UNCHANGED <<N, M, timeoutCfg, gauge, hist, calls, mode, uvars, svars, xvars>>

(***************************************************************************)
(* units_to_take on a grid of gauge values and maxima.                     *)
(***************************************************************************)
Sample ==
    /\ mode = "units"
    /\ \E r \in 0..MaxGauge, m \in 0..MaxGauge :
         /\ upR' = r
         /\ upM' = m
         /\ upOut' = units_to_take(r, m)
    /\ UNCHANGED <<mode, tvars, svars, xvars>>

(***************************************************************************)
(* The Hrana session: handle_request, one action per request kind.         *)
(***************************************************************************)
\* the specifications in which stream requests, SQL-text requests and
\* repeated hellos occur
StreamModes == {"session", "proto", "cursor", "capture", "dispatch"}
SqlModes == {"sql", "proto", "capture", "dispatch"}
HelloModes == {"proto", "capture"}

StreamIds == {1, 2}
CursorIds == {1, 2}
SqlIds == {1} \cup ((SqlPreload + 1)..(SqlPreload + 3))
SqlTexts == {"a", "b"}
\* the sql ids explored together with the other request kinds
ProtoSqlIds == {1} \cup ((SqlPreload + 2)..(SqlPreload + 3))
\* the sql ids that requests refer to where the jobs' queries are followed
CaptureSqlIds == {1}
Workers == 1..(MaxJobs + BusyJobs + 1)
JobIds == 1..(MailboxCap + 1 + MaxJobs + BusyJobs)
SimpleKinds == {"Execute", "Batch", "Sequence", "Describe", "GetAutocommit"}
\* the stream requests explored beside a stream whose mailbox is full
DispatchKinds == {"Execute", "GetAutocommit"}
Identities == {"A", "B"}

Ready == [tag |-> "ready"]
Panicked == [tag |-> "panicked"]
NoJob == [id |-> 0, kind |-> "none", w |-> 0, sid |-> 0, cid |-> 0]
NoReply == [id |-> 0, tag |-> "none", arg |-> 0, delivered |-> FALSE]
NoLast == [kind |-> "none", err |-> "none", arg |-> 0]
NoClosure == [sql |-> "none", auth |-> "none"]
NoSeen == [ref |-> 0, sqls |-> <<>>, auth |-> "none"]

MinVersionCursorsAtTwo(kind) ==
    IF kind \in {"Sequence", "Describe", "StoreSql", "CloseSql",
                 "OpenCursor", "CloseCursor", "FetchCursor"} THEN 2
    ELSE IF kind = "GetAutocommit" THEN 3
    ELSE 1

\* ensure_version!: the minimum version of each request kind
MinVersion(kind) ==
    IF kind \in {"Sequence", "Describe", "StoreSql", "CloseSql"} THEN 2
    ELSE IF kind \in {"OpenCursor", "CloseCursor", "FetchCursor", "GetAutocommit"} THEN 3
    ELSE 1

Remove(f, k) == [x \in (DOMAIN f) \ {k} |-> f[x]]
Insert(f, k, v) == [x \in (DOMAIN f) \cup {k} |-> IF x = k THEN v ELSE f[x]]

\* handle_request returns Err(err): nothing else changes. The request kind is
\* kept only with NotSupported, the other errors name the request
Reject(kind, err, arg) ==
    /\ last' = [kind |-> IF err = "NotSupported" THEN kind ELSE "none",
                err |-> err, arg |-> arg]
    /\ UNCHANGED <<version, streams, sqls, cursors, nworkers, box, txOpen, wpc,
                   cur, db, cursor_hnd, njobs, quota, sent, ran, replied, wlast, disp>>

\* what handle_request does after stream_respond has returned
PostStreams(post, job, strs) ==
    IF post = "insert_stream"
    THEN Insert(strs, job.sid, [w |-> job.w, cursor_id |-> 0])
    ELSE IF post = "insert_cursor"
    THEN [strs EXCEPT ![job.sid].cursor_id = job.cid]
    ELSE strs

PostCursors(post, job, curs) ==
    IF post = "insert_cursor" THEN Insert(curs, job.cid, job.sid) ELSE curs

PostTx(post, job, txs) ==
    IF post = "drop_tx" THEN [txs EXCEPT ![job.w] = FALSE] ELSE txs

SendJobDropsWhenFull(job, post, strs, curs, txs) ==
    IF Len(box[job.w]) < MailboxCap
    THEN /\ box' = [box EXCEPT ![job.w] = Append(@, job)]
         /\ sent' = [sent EXCEPT ![job.w] = Append(@, job.id)]
         /\ disp' = Ready
         /\ streams' = PostStreams(post, job, strs)
         /\ cursors' = PostCursors(post, job, curs)
         /\ txOpen' = PostTx(post, job, txs)
    ELSE /\ disp' = Ready
         /\ streams' = PostStreams(post, job, strs)
         /\ cursors' = PostCursors(post, job, curs)
         /\ txOpen' = PostTx(post, job, txs)
         /\ UNCHANGED <<box, sent>>

SendJobWaitsForAnyMailbox(job, post, strs, curs, txs) ==
    IF \A w \in Workers : Len(box[w]) < MailboxCap
    THEN /\ box' = [box EXCEPT ![job.w] = Append(@, job)]
         /\ sent' = [sent EXCEPT ![job.w] = Append(@, job.id)]
         /\ disp' = Ready
         /\ streams' = PostStreams(post, job, strs)
         /\ cursors' = PostCursors(post, job, curs)
         /\ txOpen' = PostTx(post, job, txs)
    ELSE /\ disp' = [tag |-> "sending", job |-> job, post |-> post]
         /\ streams' = strs
         /\ cursors' = curs
         /\ txOpen' = txs
         /\ UNCHANGED <<box, sent>>

\* stream_respond: job_tx.send(job).await, which waits while the mailbox is full
SendJob(job, post, strs, curs, txs) ==
    IF Len(box[job.w]) < MailboxCap
    THEN /\ box' = [box EXCEPT ![job.w] = Append(@, job)]
         /\ sent' = [sent EXCEPT ![job.w] = Append(@, job.id)]
         /\ disp' = Ready
         /\ streams' = PostStreams(post, job, strs)
         /\ cursors' = PostCursors(post, job, curs)
         /\ txOpen' = PostTx(post, job, txs)
    ELSE /\ disp' = [tag |-> "sending", job |-> job, post |-> post]
         /\ streams' = strs
         /\ cursors' = curs
         /\ txOpen' = txs
         /\ UNCHANGED <<box, sent>>

NewJob(kind, w, sid, cid) ==
    [id |-> njobs + 1, kind |-> kind, w |-> w, sid |-> sid, cid |-> cid]

\* the request kinds whose job executes SQL with the session's identity
CapturingKinds == {"Execute", "Batch", "Sequence", "Describe", "OpenCursor"}

\* how the requests explored name their SQL: 0 for a text carried by the
\* request itself, else the id of a stored text; stored texts are referred to
\* only in the specification that follows the jobs' queries
SqlRefs ==
    IF mode = "capture" THEN {0} \cup (DOMAIN sqls \cap CaptureSqlIds) ELSE {0}

\* proto_sql_to_sql: the text a request's SQL reference stands for
Resolve(ref, texts) == IF ref = 0 THEN "inline" ELSE texts[ref]

\* `let query = ...(&session.sqls, ...)` and `let auth = session.authenticated`
\* before stream_respond!: the values are moved into the job's closure when a
\* job is created. They are followed in the specification made for them.
Captures(kind) ==
    IF mode = "capture" /\ njobs' # njobs /\ kind \in CapturingKinds
    THEN \E ref \in SqlRefs :
           /\ closure' = [closure EXCEPT ![njobs'] =
                            [sql |-> Resolve(ref, sqls), auth |-> authenticated]]
           /\ seen' = [seen EXCEPT ![njobs'] =
                         [ref |-> ref, sqls |-> sqls, auth |-> authenticated]]
    ELSE UNCHANGED <<closure, seen>>

\* a request that is accepted and creates a job
Accept(kind, arg) ==
    /\ last' = NoLast
    /\ njobs' = njobs + 1
    /\ quota' = quota - 1

CanHandle ==
    /\ mode \in StreamModes
    /\ disp = Ready

OpenStream(sid) ==
    /\ CanHandle
    /\ IF sid \in DOMAIN streams
       THEN Reject("OpenStream", "StreamExists", sid)
       ELSE /\ quota > 0
            /\ LET w == nworkers + 1 IN
                 /\ nworkers' = w
                 /\ wpc' = [wpc EXCEPT ![w] = "recv"]
                 /\ SendJob(NewJob("OpenStream", w, sid, 0), "insert_stream",
                            streams, cursors, [txOpen EXCEPT ![w] = TRUE])
            /\ Accept("OpenStream", sid)
            /\ UNCHANGED <<version, sqls, cur, db, cursor_hnd, ran, replied, wlast>>
    /\ UNCHANGED <<mode, tvars, uvars, xvars, authenticated, qvars>>

CloseStreamLeavesCursor(sid) ==
    /\ CanHandle
    /\ IF sid \notin DOMAIN streams
       THEN Reject("CloseStream", "StreamNotFound", sid)
       ELSE /\ quota > 0
            /\ SendJob(NewJob("CloseStream", streams[sid].w, sid, 0), "drop_tx",
                       Remove(streams, sid), cursors, txOpen)
            /\ Accept("CloseStream", sid)
            /\ UNCHANGED <<version, sqls, nworkers, wpc, cur, db, cursor_hnd,
                           ran, replied, wlast>>
    /\ UNCHANGED <<mode, tvars, uvars, xvars, authenticated, qvars>>

CloseStreamKeepsSender(sid) ==
    /\ CanHandle
    /\ IF sid \notin DOMAIN streams
       THEN Reject("CloseStream", "StreamNotFound", sid)
       ELSE /\ quota > 0
            /\ SendJob(NewJob("CloseStream", streams[sid].w, sid, 0), "none",
                       Remove(streams, sid),
                       IF streams[sid].cursor_id # 0
                       THEN Remove(cursors, streams[sid].cursor_id)
                       ELSE cursors,
                       txOpen)
            /\ Accept("CloseStream", sid)
            /\ UNCHANGED <<version, sqls, nworkers, wpc, cur, db, cursor_hnd,
                           ran, replied, wlast>>
    /\ UNCHANGED <<mode, tvars, uvars, xvars, authenticated, qvars>>

CloseStream(sid) ==
    /\ CanHandle
    /\ IF sid \notin DOMAIN streams
       THEN Reject("CloseStream", "StreamNotFound", sid)
       ELSE /\ quota > 0
            /\ SendJob(NewJob("CloseStream", streams[sid].w, sid, 0), "drop_tx",
                       Remove(streams, sid),
                       IF streams[sid].cursor_id # 0
                       THEN Remove(cursors, streams[sid].cursor_id)
                       ELSE cursors,
                       txOpen)
            /\ Accept("CloseStream", sid)
            /\ UNCHANGED <<version, sqls, nworkers, wpc, cur, db, cursor_hnd,
                           ran, replied, wlast>>
    /\ UNCHANGED <<mode, tvars, uvars, xvars, authenticated, qvars>>

\* Execute, Batch, Sequence, Describe, GetAutocommit: `compiles` is whether
\* the request's statement, batch or sql reference compiles
SimpleRequest(kind, sid, compiles) ==
    /\ CanHandle
    /\ IF version < MinVersion(kind)
       THEN Reject(kind, "NotSupported", MinVersion(kind))
       ELSE IF sid \notin DOMAIN streams
       THEN Reject(kind, "StreamNotFound", sid)
       ELSE IF ~compiles /\ kind # "GetAutocommit"
       THEN Reject(kind, "CompileError", sid)
       ELSE /\ quota > 0
            /\ SendJob(NewJob(kind, streams[sid].w, sid, 0), "none",
                       streams, cursors, txOpen)
            /\ Accept(kind, sid)
            /\ UNCHANGED <<version, sqls, nworkers, wpc, cur, db, cursor_hnd,
                           ran, replied, wlast>>
    /\ Captures(kind)
    /\ UNCHANGED <<mode, tvars, uvars, xvars, authenticated, used>>

OpenCursorRegistersFirst(sid, cid, compiles) ==
    /\ CanHandle
    /\ IF version < MinVersion("OpenCursor")
       THEN Reject("OpenCursor", "NotSupported", MinVersion("OpenCursor"))
       ELSE IF sid \notin DOMAIN streams
       THEN Reject("OpenCursor", "StreamNotFound", sid)
       ELSE IF streams[sid].cursor_id # 0
       THEN Reject("OpenCursor", "CursorAlreadyOpen", sid)
       ELSE IF cid \in DOMAIN cursors
       THEN Reject("OpenCursor", "CursorExists", cid)
       ELSE IF ~compiles
       THEN /\ last' = [kind |-> "none", err |-> "CompileError", arg |-> sid]
            /\ cursors' = Insert(cursors, cid, sid)
            /\ streams' = [streams EXCEPT ![sid].cursor_id = cid]
            /\ UNCHANGED <<version, sqls, nworkers, box, txOpen, wpc, cur, db,
                           cursor_hnd, njobs, quota, sent, ran, replied, wlast,
                           disp>>
       ELSE /\ quota > 0
            /\ SendJob(NewJob("OpenCursor", streams[sid].w, sid, cid),
                       "insert_cursor", streams, cursors, txOpen)
            /\ Accept("OpenCursor", cid)
            /\ UNCHANGED <<version, sqls, nworkers, wpc, cur, db, cursor_hnd,
                           ran, replied, wlast>>
    /\ Captures("OpenCursor")
    /\ UNCHANGED <<mode, tvars, uvars, xvars, authenticated, used>>

OpenCursorNoExistsCheck(sid, cid, compiles) ==
    /\ CanHandle
    /\ IF version < MinVersion("OpenCursor")
       THEN Reject("OpenCursor", "NotSupported", MinVersion("OpenCursor"))
       ELSE IF sid \notin DOMAIN streams
       THEN Reject("OpenCursor", "StreamNotFound", sid)
       ELSE IF streams[sid].cursor_id # 0
       THEN Reject("OpenCursor", "CursorAlreadyOpen", sid)
       ELSE IF ~compiles
       THEN Reject("OpenCursor", "CompileError", sid)
       ELSE /\ quota > 0
            /\ SendJob(NewJob("OpenCursor", streams[sid].w, sid, cid),
                       "insert_cursor", streams, cursors, txOpen)
            /\ Accept("OpenCursor", cid)
            /\ UNCHANGED <<version, sqls, nworkers, wpc, cur, db, cursor_hnd,
                           ran, replied, wlast>>
    /\ Captures("OpenCursor")
    /\ UNCHANGED <<mode, tvars, uvars, xvars, authenticated, used>>

OpenCursor(sid, cid, compiles) ==
    /\ CanHandle
    /\ IF version < MinVersion("OpenCursor")
       THEN Reject("OpenCursor", "NotSupported", MinVersion("OpenCursor"))
       ELSE IF sid \notin DOMAIN streams
       THEN Reject("OpenCursor", "StreamNotFound", sid)
       ELSE IF streams[sid].cursor_id # 0
       THEN Reject("OpenCursor", "CursorAlreadyOpen", sid)
       ELSE IF cid \in DOMAIN cursors
       THEN Reject("OpenCursor", "CursorExists", cid)
       ELSE IF ~compiles
       THEN Reject("OpenCursor", "CompileError", sid)
       ELSE /\ quota > 0
            /\ SendJob(NewJob("OpenCursor", streams[sid].w, sid, cid),
                       "insert_cursor", streams, cursors, txOpen)
            /\ Accept("OpenCursor", cid)
            /\ UNCHANGED <<version, sqls, nworkers, wpc, cur, db, cursor_hnd,
                           ran, replied, wlast>>
    /\ Captures("OpenCursor")
    /\ UNCHANGED <<mode, tvars, uvars, xvars, authenticated, used>>

\* the failure of get_stream_mut! or of assert_eq! in CloseCursor/FetchCursor
Broken(kind, curs, err, arg) ==
    /\ last' = [kind |-> "none", err |-> err, arg |-> arg]
    /\ cursors' = curs
    /\ disp' = IF err = "panic" THEN Panicked ELSE disp
    /\ UNCHANGED <<version, streams, sqls, nworkers, box, txOpen, wpc, cur, db,
                   cursor_hnd, njobs, quota, sent, ran, replied, wlast>>

CloseCursor(cid) ==
    /\ CanHandle
    /\ IF version < MinVersion("CloseCursor")
       THEN Reject("CloseCursor", "NotSupported", MinVersion("CloseCursor"))
       ELSE IF cid \notin DOMAIN cursors
       THEN Reject("CloseCursor", "CursorNotFound", cid)
       ELSE LET sid == cursors[cid] IN
            IF sid \notin DOMAIN streams
            THEN Broken("CloseCursor", Remove(cursors, cid), "StreamNotFound", sid)
            ELSE IF streams[sid].cursor_id # cid
            THEN Broken("CloseCursor", Remove(cursors, cid), "panic", cid)
            ELSE /\ quota > 0
                 /\ SendJob(NewJob("CloseCursor", streams[sid].w, sid, cid), "none",
                            [streams EXCEPT ![sid].cursor_id = 0],
                            Remove(cursors, cid), txOpen)
                 /\ Accept("CloseCursor", cid)
                 /\ UNCHANGED <<version, sqls, nworkers, wpc, cur, db,
                                cursor_hnd, ran, replied, wlast>>
    /\ UNCHANGED <<mode, tvars, uvars, xvars, authenticated, qvars>>

FetchCursor(cid) ==
    /\ CanHandle
    /\ IF version < MinVersion("FetchCursor")
       THEN Reject("FetchCursor", "NotSupported", MinVersion("FetchCursor"))
       ELSE IF cid \notin DOMAIN cursors
       THEN Reject("FetchCursor", "CursorNotFound", cid)
       ELSE LET sid == cursors[cid] IN
            IF sid \notin DOMAIN streams
            THEN Broken("FetchCursor", cursors, "StreamNotFound", sid)
            ELSE IF streams[sid].cursor_id # cid
            THEN Broken("FetchCursor", cursors, "panic", cid)
            ELSE /\ quota > 0
                 /\ SendJob(NewJob("FetchCursor", streams[sid].w, sid, cid), "none",
                            streams, cursors, txOpen)
                 /\ Accept("FetchCursor", cid)
                 /\ UNCHANGED <<version, sqls, nworkers, wpc, cur, db,
                                cursor_hnd, ran, replied, wlast>>
    /\ UNCHANGED <<mode, tvars, uvars, xvars, authenticated, qvars>>

\* the blocked job_tx.send completes once the worker has made room
Unblock ==
    /\ mode \in StreamModes
    /\ disp.tag = "sending"
    /\ Len(box[disp.job.w]) < MailboxCap
    /\ SendJob(disp.job, disp.post, streams, cursors, txOpen)
    /\ UNCHANGED <<version, sqls, nworkers, wpc, cur, db, cursor_hnd, njobs,
                   quota, ran, replied, wlast, last>>
    /\ UNCHANGED <<mode, tvars, uvars, xvars, authenticated, qvars>>

StoreSqlAboveLimit(q, text) ==
    /\ mode \in SqlModes
    /\ disp = Ready
    /\ IF version < MinVersion("StoreSql")
       THEN Reject("StoreSql", "NotSupported", MinVersion("StoreSql"))
       ELSE IF q \in DOMAIN sqls
       THEN Reject("StoreSql", "SqlExists", q)
       ELSE IF Cardinality(DOMAIN sqls) > MAX_SQL_COUNT
       THEN Reject("StoreSql", "SqlTooMany", Cardinality(DOMAIN sqls))
       ELSE /\ sqls' = Insert(sqls, q, text)
            /\ last' = [kind |-> "StoreSql", err |-> "none", arg |-> q]
            /\ UNCHANGED <<version, streams, cursors, nworkers, box, txOpen,
                           wpc, cur, db, cursor_hnd, njobs, quota, sent, ran,
                           replied, wlast, disp>>
    /\ UNCHANGED <<mode, tvars, uvars, xvars, authenticated, qvars>>

StoreSqlOverwrites(q, text) ==
    /\ mode \in SqlModes
    /\ disp = Ready
    /\ IF version < MinVersion("StoreSql")
       THEN Reject("StoreSql", "NotSupported", MinVersion("StoreSql"))
       ELSE IF q \notin DOMAIN sqls /\ Cardinality(DOMAIN sqls) >= MAX_SQL_COUNT
       THEN Reject("StoreSql", "SqlTooMany", Cardinality(DOMAIN sqls))
       ELSE /\ sqls' = Insert(sqls, q, text)
            /\ last' = [kind |-> "StoreSql", err |-> "none", arg |-> q]
            /\ UNCHANGED <<version, streams, cursors, nworkers, box, txOpen,
                           wpc, cur, db, cursor_hnd, njobs, quota, sent, ran,
                           replied, wlast, disp>>
    /\ UNCHANGED <<mode, tvars, uvars, xvars, authenticated, qvars>>

StoreSql(q, text) ==
    /\ mode \in SqlModes
    /\ disp = Ready
    /\ IF version < MinVersion("StoreSql")
       THEN Reject("StoreSql", "NotSupported", MinVersion("StoreSql"))
       ELSE IF q \in DOMAIN sqls
       THEN Reject("StoreSql", "SqlExists", q)
       ELSE IF Cardinality(DOMAIN sqls) >= MAX_SQL_COUNT
       THEN Reject("StoreSql", "SqlTooMany", Cardinality(DOMAIN sqls))
       ELSE /\ sqls' = Insert(sqls, q, text)
            /\ last' = [kind |-> "StoreSql", err |-> "none", arg |-> q]
            /\ UNCHANGED <<version, streams, cursors, nworkers, box, txOpen,
                           wpc, cur, db, cursor_hnd, njobs, quota, sent, ran,
                           replied, wlast, disp>>
    /\ UNCHANGED <<mode, tvars, uvars, xvars, authenticated, qvars>>

CloseSql(q) ==
    /\ mode \in SqlModes
    /\ disp = Ready
    /\ IF version < MinVersion("CloseSql")
       THEN Reject("CloseSql", "NotSupported", MinVersion("CloseSql"))
       ELSE /\ sqls' = Remove(sqls, q)
            /\ last' = [kind |-> "CloseSql", err |-> "none", arg |-> q]
            /\ UNCHANGED <<version, streams, cursors, nworkers, box, txOpen,
                           wpc, cur, db, cursor_hnd, njobs, quota, sent, ran,
                           replied, wlast, disp>>
    /\ UNCHANGED <<mode, tvars, uvars, xvars, authenticated, qvars>>

\* handle_repeated_hello: `auth` is the result of authenticate_jwt(jwt), an
\* identity or "denied"
RepeatedHelloClearsIdentity(auth) ==
    /\ mode \in HelloModes
    /\ disp = Ready
    /\ IF version < 2
       THEN Reject("Hello", "NotSupported", 2) /\ UNCHANGED authenticated
       ELSE IF auth = "denied"
       THEN /\ Reject("Hello", "Auth", 0)
            /\ authenticated' = "denied"
       ELSE /\ authenticated' = auth
            /\ last' = [kind |-> "Hello", err |-> "none", arg |-> 0]
            /\ UNCHANGED <<version, streams, sqls, cursors, nworkers, box,
                           txOpen, wpc, cur, db, cursor_hnd, njobs, quota, sent,
                           ran, replied, wlast, disp>>
    /\ UNCHANGED <<mode, tvars, uvars, xvars, qvars>>

RepeatedHello(auth) ==
    /\ mode \in HelloModes
    /\ disp = Ready
    /\ IF version < 2
       THEN Reject("Hello", "NotSupported", 2) /\ UNCHANGED authenticated
       ELSE IF auth = "denied"
       THEN Reject("Hello", "Auth", 0) /\ UNCHANGED authenticated
       ELSE /\ authenticated' = auth
            /\ last' = [kind |-> "Hello", err |-> "none", arg |-> 0]
            /\ UNCHANGED <<version, streams, sqls, cursors, nworkers, box,
                           txOpen, wpc, cur, db, cursor_hnd, njobs, quota, sent,
                           ran, replied, wlast, disp>>
    /\ UNCHANGED <<mode, tvars, uvars, xvars, qvars>>

(***************************************************************************)
(* The stream worker spawned by stream_spawn.                              *)
(***************************************************************************)
RecvLast(w) ==
    /\ mode \in StreamModes
    /\ wpc[w] = "recv"
    /\ box[w] # <<>>
    /\ cur' = [cur EXCEPT ![w] = box[w][Len(box[w])]]
    /\ box' = [box EXCEPT ![w] = SubSeq(@, 1, Len(@) - 1)]
    /\ wpc' = [wpc EXCEPT ![w] = "run"]
    /\ UNCHANGED <<version, streams, sqls, cursors, nworkers, txOpen, db,
                   cursor_hnd, njobs, quota, sent, ran, replied, wlast,
                   disp, last>>
    /\ UNCHANGED <<mode, tvars, uvars, xvars, authenticated, qvars>>

RecvWhileRunning(w) ==
    /\ mode \in StreamModes
    /\ wpc[w] \in {"recv", "run"}
    /\ box[w] # <<>>
    /\ cur' = [cur EXCEPT ![w] = Head(box[w])]
    /\ box' = [box EXCEPT ![w] = Tail(@)]
    /\ wpc' = [wpc EXCEPT ![w] = "run"]
    /\ UNCHANGED <<version, streams, sqls, cursors, nworkers, txOpen, db,
                   cursor_hnd, njobs, quota, sent, ran, replied, wlast,
                   disp, last>>
    /\ UNCHANGED <<mode, tvars, uvars, xvars, authenticated, qvars>>

\* job_rx.recv().await returns Some(job)
Recv(w) ==
    /\ mode \in StreamModes
    /\ wpc[w] = "recv"
    /\ box[w] # <<>>
    /\ cur' = [cur EXCEPT ![w] = Head(box[w])]
    /\ box' = [box EXCEPT ![w] = Tail(@)]
    /\ wpc' = [wpc EXCEPT ![w] = "run"]
    /\ UNCHANGED <<version, streams, sqls, cursors, nworkers, txOpen, db,
                   cursor_hnd, njobs, quota, sent, ran, replied, wlast,
                   disp, last>>
    /\ UNCHANGED <<mode, tvars, uvars, xvars, authenticated, qvars>>

\* job_rx.recv().await returns None: the Sender is gone and the mailbox empty
WorkerExit(w) ==
    /\ mode \in StreamModes
    /\ wpc[w] = "recv"
    /\ box[w] = <<>>
    /\ ~txOpen[w]
    /\ wpc' = [wpc EXCEPT ![w] = "done"]
    /\ UNCHANGED <<version, streams, sqls, cursors, nworkers, box, txOpen, cur,
                   db, cursor_hnd, njobs, quota, sent, ran, replied,
                   wlast, disp, last>>
    /\ UNCHANGED <<mode, tvars, uvars, xvars, authenticated, qvars>>

JobResultNoDbCheck(job, w, ok) ==
    IF job.kind = "OpenStream"
    THEN [tag |-> IF ok THEN "Ok" ELSE "Error", arg |-> 0]
    ELSE IF job.kind \in {"CloseStream", "CloseCursor"}
    THEN [tag |-> "Ok", arg |-> 0]
    ELSE IF job.kind = "FetchCursor"
    THEN IF cursor_hnd[w] = 0
         THEN [tag |-> "CursorNotOpen", arg |-> job.cid]
         ELSE [tag |-> IF ok THEN "Ok" ELSE "Error", arg |-> 0]
    ELSE IF job.kind = "OpenCursor"
    THEN [tag |-> "Ok", arg |-> 0]
    ELSE [tag |-> IF ok THEN "Ok" ELSE "Error", arg |-> 0]

\* the result of the job's closure, given the stream's state; `ok` is whether
\* the factory, the engine or the cursor succeeds
JobResult(job, w, ok) ==
    IF job.kind = "OpenStream"
    THEN [tag |-> IF ok THEN "Ok" ELSE "Error", arg |-> 0]
    ELSE IF job.kind \in {"CloseStream", "CloseCursor"}
    THEN [tag |-> "Ok", arg |-> 0]
    ELSE IF job.kind = "FetchCursor"
    THEN IF cursor_hnd[w] = 0
         THEN [tag |-> "CursorNotOpen", arg |-> job.cid]
         ELSE [tag |-> IF ok THEN "Ok" ELSE "Error", arg |-> 0]
    ELSE IF ~db[w]
    THEN [tag |-> "StreamNotOpen", arg |-> job.sid]
    ELSE IF job.kind = "OpenCursor"
    THEN [tag |-> "Ok", arg |-> 0]
    ELSE [tag |-> IF ok THEN "Ok" ELSE "Error", arg |-> 0]

RunsWithSessionIdentity(job, w) ==
    IF mode = "capture" /\ job.kind \in CapturingKinds /\ db[w]
    THEN [used EXCEPT ![job.id] = [closure[job.id] EXCEPT !.auth = authenticated]]
    ELSE used

\* the query and the identity a job hands to the connection: those of its
\* closure (execute_stmt(&**db, auth, query) and the like), once
\* get_stream_db! has found the connection
RunsWith(job, w) ==
    IF mode = "capture" /\ job.kind \in CapturingKinds /\ db[w]
    THEN [used EXCEPT ![job.id] = closure[job.id]]
    ELSE used

RunStopsOnSendError(w, ok, rxgone) ==
    /\ mode \in StreamModes
    /\ wpc[w] = "run"
    /\ LET job == cur[w]
           res == JobResult(job, w, ok)
       IN /\ db' = [db EXCEPT ![w] =
                      IF job.kind = "OpenStream" /\ ok THEN TRUE ELSE @]
          /\ cursor_hnd' = [cursor_hnd EXCEPT ![w] =
                      IF job.kind = "OpenCursor" /\ res.tag = "Ok" THEN job.cid
                      ELSE IF job.kind = "CloseCursor" THEN 0
                      ELSE @]
          /\ replied' = [replied EXCEPT ![job.id] = @ + 1]
          /\ wlast' = [wlast EXCEPT ![w] =
                         [id |-> job.id, tag |-> res.tag, arg |-> res.arg,
                          delivered |-> ~rxgone]]
          /\ ran' = [ran EXCEPT ![w] = Append(@, job.id)]
    /\ cur' = [cur EXCEPT ![w] = NoJob]
    /\ wpc' = [wpc EXCEPT ![w] = IF rxgone THEN "done" ELSE "recv"]
    /\ UNCHANGED <<version, streams, sqls, cursors, nworkers, box, txOpen,
                   njobs, quota, sent, disp, last>>
    /\ used' = RunsWith(cur[w], w)
    /\ UNCHANGED <<mode, tvars, uvars, xvars, authenticated, closure, seen>>

RunCloseCursorKeepsHandle(w, ok, rxgone) ==
    /\ mode \in StreamModes
    /\ wpc[w] = "run"
    /\ LET job == cur[w]
           res == JobResult(job, w, ok)
       IN /\ db' = [db EXCEPT ![w] =
                      IF job.kind = "OpenStream" /\ ok THEN TRUE ELSE @]
          /\ cursor_hnd' = [cursor_hnd EXCEPT ![w] =
                      IF job.kind = "OpenCursor" /\ res.tag = "Ok" THEN job.cid
                      ELSE @]
          /\ replied' = [replied EXCEPT ![job.id] = @ + 1]
          /\ wlast' = [wlast EXCEPT ![w] =
                         [id |-> job.id, tag |-> res.tag, arg |-> res.arg,
                          delivered |-> ~rxgone]]
          /\ ran' = [ran EXCEPT ![w] = Append(@, job.id)]
    /\ cur' = [cur EXCEPT ![w] = NoJob]
    /\ wpc' = [wpc EXCEPT ![w] = "recv"]
    /\ UNCHANGED <<version, streams, sqls, cursors, nworkers, box, txOpen,
                   njobs, quota, sent, disp, last>>
    /\ used' = RunsWith(cur[w], w)
    /\ UNCHANGED <<mode, tvars, uvars, xvars, authenticated, closure, seen>>

RunOpenCursorAttachesFirst(w, ok, rxgone) ==
    /\ mode \in StreamModes
    /\ wpc[w] = "run"
    /\ LET job == cur[w]
           res == JobResult(job, w, ok)
       IN /\ db' = [db EXCEPT ![w] =
                      IF job.kind = "OpenStream" /\ ok THEN TRUE ELSE @]
          /\ cursor_hnd' = [cursor_hnd EXCEPT ![w] =
                      IF job.kind = "OpenCursor" THEN job.cid
                      ELSE IF job.kind = "CloseCursor" THEN 0
                      ELSE @]
          /\ replied' = [replied EXCEPT ![job.id] = @ + 1]
          /\ wlast' = [wlast EXCEPT ![w] =
                         [id |-> job.id, tag |-> res.tag, arg |-> res.arg,
                          delivered |-> ~rxgone]]
          /\ ran' = [ran EXCEPT ![w] = Append(@, job.id)]
    /\ cur' = [cur EXCEPT ![w] = NoJob]
    /\ wpc' = [wpc EXCEPT ![w] = "recv"]
    /\ UNCHANGED <<version, streams, sqls, cursors, nworkers, box, txOpen,
                   njobs, quota, sent, disp, last>>
    /\ used' = RunsWith(cur[w], w)
    /\ UNCHANGED <<mode, tvars, uvars, xvars, authenticated, closure, seen>>

\* (job.f)(&mut stream).await, then job.resp_tx.send(res); `rxgone` is whether
\* the client has dropped the receiver by then
Run(w, ok, rxgone) ==
    /\ mode \in StreamModes
    /\ wpc[w] = "run"
    /\ LET job == cur[w]
           res == JobResult(job, w, ok)
       IN /\ db' = [db EXCEPT ![w] =
                      IF job.kind = "OpenStream" /\ ok THEN TRUE ELSE @]
          /\ cursor_hnd' = [cursor_hnd EXCEPT ![w] =
                      IF job.kind = "OpenCursor" /\ res.tag = "Ok" THEN job.cid
                      ELSE IF job.kind = "CloseCursor" THEN 0
                      ELSE @]
          /\ replied' = [replied EXCEPT ![job.id] = @ + 1]
          /\ wlast' = [wlast EXCEPT ![w] =
                         [id |-> job.id, tag |-> res.tag, arg |-> res.arg,
                          delivered |-> ~rxgone]]
          /\ ran' = [ran EXCEPT ![w] = Append(@, job.id)]
    /\ cur' = [cur EXCEPT ![w] = NoJob]
    /\ wpc' = [wpc EXCEPT ![w] = "recv"]
    /\ UNCHANGED <<version, streams, sqls, cursors, nworkers, box, txOpen,
                   njobs, quota, sent, disp, last>>
    /\ used' = RunsWith(cur[w], w)
    /\ UNCHANGED <<mode, tvars, uvars, xvars, authenticated, closure, seen>>

(***************************************************************************)
(* Connection::execute_batch_or_rollback and the Program it runs.          *)
(***************************************************************************)
\* the specifications in which a Program is built and run
BatchModes == {"batch", "program"}

Stmts == {"BEGIN", "INSERT", "COMMIT"}
Queries == [stmt : Stmts, want_rows : BOOLEAN]
Batches == UNION {[1..n -> Queries] : n \in 0..MaxBatch}

\* Option<Cond>; a step index counts from 0 as in the code
NoCond == [tag |-> "None"]
CondOk(i) == [tag |-> "Ok", step |-> i]
CondNot(c) == [tag |-> "Not", cond |-> c]

make_batch_program_cond_first(b) ==
    [i \in 1..Len(b) |->
       [cond |-> IF i - 1 > 0 THEN CondOk(0) ELSE NoCond,
        query |-> b[i]]]

make_batch_program_unconditional(b) ==
    [i \in 1..Len(b) |-> [cond |-> NoCond, query |-> b[i]]]

\* `i` of the code's enumerate() is i - 1 here
make_batch_program(b) ==
    [i \in 1..Len(b) |->
       [cond |-> IF i - 1 > 0 THEN CondOk((i - 1) - 1) ELSE NoCond,
        query |-> b[i]]]

RollbackQuery == [stmt |-> "ROLLBACK", want_rows |-> FALSE]

rollback_steps_len_after_push(b) ==
    LET st == make_batch_program(b) IN
      IF st # <<>>
      THEN Append(st, [cond |-> CondNot(CondOk(Len(st))), query |-> RollbackQuery])
      ELSE st

\* the steps handed to Program::new
rollback_steps(b) ==
    LET st == make_batch_program(b) IN
      IF st # <<>>
      THEN Append(st, [cond |-> CondNot(CondOk(Len(st) - 1)),
                       query |-> RollbackQuery])
      ELSE st

take_whole_program(b, st) == Len(st)

\* result_builder.take(batch_len)
take(b, st) == Len(b)

\* a condition against the outcome vector: a skipped step is neither Ok nor Err
RECURSIVE EvalCond(_, _)
EvalCond(c, outs) ==
    IF c.tag = "None" THEN TRUE
    ELSE IF c.tag = "Ok" THEN outs[c.step + 1] = "Ok"
    ELSE IF c.tag = "Err" THEN outs[c.step + 1] = "Err"
    ELSE ~EvalCond(c.cond, outs)

\* the State after a statement has run
NextState(stmt, ok, st) ==
    IF stmt = "ROLLBACK" THEN "Init"
    ELSE IF ~ok THEN st
    ELSE IF stmt = "BEGIN" THEN "Txn"
    ELSE IF stmt = "COMMIT" THEN "Init"
    ELSE st

\* execute_batch_or_rollback up to the call of execute_program
Lower ==
    /\ mode \in BatchModes
    /\ bpc = "call"
    /\ steps' = rollback_steps(batch)
    /\ limit' = take(batch, rollback_steps(batch))
    /\ bpc' = "run"
    /\ entry' = "execute_batch_or_rollback"
    /\ UNCHANGED <<batch, outcomes, slots, txnState>>
    /\ UNCHANGED <<mode, tvars, uvars, svars, cvars, yvars>>

\* execute_batch up to the call of execute_program: the caller's builder is
\* handed over as it is
execute_batch ==
    /\ mode = "program"
    /\ bpc = "call"
    /\ steps' = make_batch_program(batch)
    /\ limit' = Len(make_batch_program(batch))
    /\ bpc' = "run"
    /\ entry' = "execute_batch"
    /\ UNCHANGED <<batch, outcomes, slots, txnState>>
    /\ UNCHANGED <<mode, tvars, uvars, svars, cvars, yvars>>

\* rollback up to the call of execute_program: execute_batch on the batch of
\* the one query ROLLBACK
rollback ==
    /\ mode = "program"
    /\ bpc = "call"
    /\ batch' = <<RollbackQuery>>
    /\ steps' = make_batch_program(<<RollbackQuery>>)
    /\ limit' = Len(make_batch_program(<<RollbackQuery>>))
    /\ bpc' = "run"
    /\ entry' = "rollback"
    /\ UNCHANGED <<outcomes, slots, txnState>>
    /\ UNCHANGED <<mode, tvars, uvars, svars, cvars, yvars>>

\* execute_program runs or skips its next step; `ok` is whether the engine
\* executes the statement. A ROLLBACK fails only when no transaction is open.
ExecStep(ok) ==
    /\ mode \in BatchModes
    /\ bpc = "run"
    /\ Len(outcomes) < Len(steps)
    /\ LET st == steps[Len(outcomes) + 1]
           runs == EvalCond(st.cond, outcomes)
           out == IF ~runs THEN "Skipped" ELSE IF ok THEN "Ok" ELSE "Err"
       IN /\ (~runs => ok)
          /\ (st.query.stmt = "ROLLBACK" /\ ~ok) => txnState = "Init"
          /\ outcomes' = Append(outcomes, out)
          /\ slots' = IF Len(slots) < limit THEN Append(slots, out) ELSE slots
          /\ txnState' = IF runs THEN NextState(st.query.stmt, ok, txnState)
                         ELSE txnState
    /\ UNCHANGED <<batch, steps, limit, bpc, entry>>
    /\ UNCHANGED <<mode, tvars, uvars, svars, cvars, yvars>>

\* execute_program returns Ok((builder, state)); builder.into_inner() and the
\* state go to the caller
ProgramEnds ==
    /\ mode \in BatchModes
    /\ bpc = "run"
    /\ Len(outcomes) = Len(steps)
    /\ bpc' = "ret"
    /\ UNCHANGED <<batch, steps, limit, outcomes, slots, txnState, entry>>
    /\ UNCHANGED <<mode, tvars, uvars, svars, cvars, yvars>>

\* execute_program returns Err, which `?` hands to the caller
ProgramFails ==
    /\ mode \in BatchModes
    /\ bpc = "run"
    /\ bpc' = "err"
    /\ UNCHANGED <<batch, steps, limit, outcomes, slots, txnState, entry>>
    /\ UNCHANGED <<mode, tvars, uvars, svars, cvars, yvars>>

(***************************************************************************)
(* DatabaseConfigStore: load, get and store.                               *)
(***************************************************************************)
config_path == "config.json"
tmp_config_path_is_config_path == "config.json"

tmp_config_path == "config.json~"

Paths == {config_path, tmp_config_path}
Absent == <<"absent">>

\* Option<String>
None == [some |-> FALSE]
Some(x) == [some |-> TRUE, v |-> x]
Reasons == {None, Some("x"), Some("null")}

DatabaseConfig == [block_reads : BOOLEAN, block_writes : BOOLEAN,
                   block_reason : Reasons]
DefaultConfig == [block_reads |-> FALSE, block_writes |-> FALSE,
                  block_reason |-> None]

\* JSON text of a value: a string is written in quotes, None as null
Quoted(x) == <<"quote", x>>
BoolText(b) == IF b THEN <<"true">> ELSE <<"false">>
ReasonText(r) == IF r.some THEN Quoted(r.v) ELSE <<"null">>

to_vec_pretty_bare_strings(c) ==
    << <<"{">>,
       <<"block_reads">> \o BoolText(c.block_reads),
       <<"block_writes">> \o BoolText(c.block_writes),
       <<"block_reason">> \o (IF c.block_reason.some
                              THEN <<c.block_reason.v>> ELSE <<"null">>),
       <<"}">> >>

\* serde_json::to_vec_pretty(&config): the document, in five pieces
to_vec_pretty(c) ==
    << <<"{">>,
       <<"block_reads">> \o BoolText(c.block_reads),
       <<"block_writes">> \o BoolText(c.block_writes),
       <<"block_reason">> \o ReasonText(c.block_reason),
       <<"}">> >>

Complete(doc) ==
    /\ doc # Absent
    /\ Len(doc) >= 2
    /\ doc[1] = <<"{">>
    /\ doc[Len(doc)] = <<"}">>

Member(doc, key) == {i \in 2..(Len(doc) - 1) : doc[i][1] = key}
TextOf(doc, key) == Tail(doc[CHOOSE i \in Member(doc, key) : TRUE])

ParseBool(doc, key) ==
    IF Member(doc, key) = {} THEN FALSE
    ELSE TextOf(doc, key) = <<"true">>

ParseReason(doc) ==
    IF Member(doc, "block_reason") = {} THEN None
    ELSE IF TextOf(doc, "block_reason") = <<"null">> THEN None
    ELSE Some(TextOf(doc, "block_reason")[2])

IsBoolText(t) == t \in {<<"true">>, <<"false">>}
IsReasonText(t) == t = <<"null">> \/ (Len(t) = 2 /\ t[1] = "quote")

WellTyped(doc) ==
    \A i \in 2..(Len(doc) - 1) :
      IF doc[i][1] = "block_reason" THEN IsReasonText(Tail(doc[i]))
      ELSE IsBoolText(Tail(doc[i]))

\* serde_json::from_slice(&data): a truncated document or a member of the
\* wrong type is an error, a missing member takes its default
from_slice(doc) ==
    IF Complete(doc) /\ WellTyped(doc)
    THEN [ok |-> TRUE,
          cfg |-> [block_reads |-> ParseBool(doc, "block_reads"),
                   block_writes |-> ParseBool(doc, "block_writes"),
                   block_reason |-> ParseReason(doc)]]
    ELSE [ok |-> FALSE]

\* DatabaseConfigStore::load on a directory
load(dir) ==
    IF dir[config_path] = Absent THEN [ok |-> TRUE, cfg |-> DefaultConfig]
    ELSE from_slice(dir[config_path])

\* store() is called: serde_json::to_vec_pretty(&config)?
StoreCall(c, ok) ==
    /\ mode = "config"
    /\ alive
    /\ spc = "idle"
    /\ nstores < MaxStores
    /\ nstores' = nstores + 1
    /\ config' = c
    /\ prevFile' = files[config_path]
    /\ prevSnap' = snapshot
    /\ IF ok
       THEN /\ data' = to_vec_pretty(c)
            /\ spc' = "write"
            /\ sres' = "none"
       ELSE /\ sres' = "SerializeError"
            /\ UNCHANGED <<data, spc>>
    /\ UNCHANGED <<files, snapshot, got, loaded, alive>>
    /\ UNCHANGED gvars
    /\ UNCHANGED <<mode, tvars, uvars, svars, bvars, yvars>>

\* fs::write(&self.tmp_config_path, data)?: the file is created or truncated
WriteOpen(ok) ==
    /\ mode = "config"
    /\ alive
    /\ spc = "write"
    /\ IF ok
       THEN /\ files' = [files EXCEPT ![tmp_config_path] = <<>>]
            /\ spc' = "writing"
            /\ UNCHANGED sres
       ELSE /\ sres' = "IOError"
            /\ spc' = "idle"
            /\ UNCHANGED files
    /\ UNCHANGED <<snapshot, config, data, prevFile, prevSnap, got, loaded,
                   alive, nstores>>
    /\ UNCHANGED gvars
    /\ UNCHANGED <<mode, tvars, uvars, svars, bvars, yvars>>

\* fs::write, continued: the next piece of the document is written
WriteChunk(ok) ==
    /\ mode = "config"
    /\ alive
    /\ spc = "writing"
    /\ LET written == Len(files[tmp_config_path]) IN
         IF ~ok
         THEN /\ sres' = "IOError"
              /\ spc' = "idle"
              /\ UNCHANGED files
         ELSE /\ files' = [files EXCEPT ![tmp_config_path] = Append(@, data[written + 1])]
              /\ spc' = IF written + 1 = Len(data) THEN "rename" ELSE "writing"
              /\ UNCHANGED sres
    /\ UNCHANGED <<snapshot, config, data, prevFile, prevSnap, got, loaded,
                   alive, nstores>>
    /\ UNCHANGED gvars
    /\ UNCHANGED <<mode, tvars, uvars, svars, bvars, yvars>>

\* a rename of a path onto another: the target is replaced in one step
Renamed(dir, from, to) ==
    IF from = to THEN dir
    ELSE [dir EXCEPT ![to] = dir[from], ![from] = Absent]

RenameSwapsOnError(ok) ==
    /\ mode = "config"
    /\ alive
    /\ spc = "rename"
    /\ IF ok
       THEN /\ files' = Renamed(files, tmp_config_path, config_path)
            /\ spc' = "swap"
            /\ UNCHANGED <<sres, snapshot>>
       ELSE /\ sres' = "IOError"
            /\ spc' = "idle"
            /\ snapshot' = config
            /\ UNCHANGED files
    /\ UNCHANGED <<config, data, prevFile, prevSnap, got, loaded,
                   alive, nstores>>
    /\ UNCHANGED gvars
    /\ UNCHANGED <<mode, tvars, uvars, svars, bvars, yvars>>

\* fs::rename(&self.tmp_config_path, &self.config_path)?
Rename(ok) ==
    /\ mode = "config"
    /\ alive
    /\ spc = "rename"
    /\ IF ok
       THEN /\ files' = Renamed(files, tmp_config_path, config_path)
            /\ spc' = "swap"
            /\ UNCHANGED <<sres, snapshot>>
       ELSE /\ sres' = "IOError"
            /\ spc' = "idle"
            /\ UNCHANGED <<files, snapshot>>
    /\ UNCHANGED <<config, data, prevFile, prevSnap, got, loaded,
                   alive, nstores>>
    /\ UNCHANGED gvars
    /\ UNCHANGED <<mode, tvars, uvars, svars, bvars, yvars>>

SwapInPlace ==
    /\ mode = "config"
    /\ alive
    /\ spc = "swap"
    /\ arcs' = [arcs EXCEPT ![cfgArc] = config]
    /\ snapshot' = config
    /\ sres' = "Ok"
    /\ spc' = "idle"
    /\ UNCHANGED <<files, config, data, prevFile, prevSnap, got, loaded,
                   alive, nstores, cfgArc, gotArc, gotAt>>
    /\ UNCHANGED <<mode, tvars, uvars, svars, bvars, yvars>>

\* *self.config.lock() = Arc::new(config); Ok(()): a new allocation replaces
\* the one the mutex held
Swap ==
    /\ mode = "config"
    /\ alive
    /\ spc = "swap"
    /\ arcs' = Append(arcs, config)
    /\ cfgArc' = Len(arcs) + 1
    /\ snapshot' = config
    /\ sres' = "Ok"
    /\ spc' = "idle"
    /\ UNCHANGED <<files, config, data, prevFile, prevSnap, got, loaded,
                   alive, nstores, gotArc, gotAt>>
    /\ UNCHANGED <<mode, tvars, uvars, svars, bvars, yvars>>

\* get(), from any thread at any time: self.config.lock().clone()
Get ==
    /\ mode = "config"
    /\ alive
    /\ got' = arcs[cfgArc]
    /\ gotArc' = cfgArc
    /\ gotAt' = spc
    /\ <<got, gotArc, gotAt>>' # <<got, gotArc, gotAt>>
    /\ UNCHANGED <<files, snapshot, spc, config, data, sres, prevFile, prevSnap,
                   loaded, alive, nstores, arcs, cfgArc>>
    /\ UNCHANGED <<mode, tvars, uvars, svars, bvars, yvars>>

\* the process dies, wherever store() is
Crash ==
    /\ mode = "config"
    /\ alive
    /\ alive' = FALSE
    /\ UNCHANGED <<files, snapshot, spc, config, data, sres, prevFile, prevSnap,
                   got, loaded, nstores>>
    /\ UNCHANGED gvars
    /\ UNCHANGED <<mode, tvars, uvars, svars, bvars, yvars>>

\* DatabaseConfigStore::load of the same directory, by a new process after a
\* crash or between two calls of store()
Load ==
    /\ mode = "config"
    /\ ~alive \/ spc = "idle"
    /\ loaded' = [r |-> load(files), when |-> IF alive THEN "idle" ELSE "crash"]
    /\ loaded' # loaded
    /\ UNCHANGED <<files, snapshot, spc, config, data, sres, prevFile, prevSnap,
                   got, alive, nstores>>
    /\ UNCHANGED gvars
    /\ UNCHANGED <<mode, tvars, uvars, svars, bvars, yvars>>

(***************************************************************************)
(* The FetchCursor job: the bounded drain of a cursor's producer.           *)
(***************************************************************************)
EntrySizes == {0, 1, 3}
ResponseSizes == {7, 16, 31}
Producers == UNION {[1..n -> EntrySizes] : n \in 0..MaxEntries}

NoFetchReply == [tag |-> "none", entries |-> <<>>, done |-> FALSE]

\* let max_total_size = server.max_response_size / 8
max_total_size == max_response_size \div 8

LoopCondInclusive(n, total) == n <= max_count /\ total < max_total_size

\* while entries.len() < max_count && total_size < max_total_size
LoopCond(n, total) == n < max_count /\ total < max_total_size

\* the job starts: the three locals are initialised
FetchCall(mc) ==
    /\ mode = "fetch"
    /\ fpc = "idle"
    /\ nfetch < MaxFetches
    /\ nfetch' = nfetch + 1
    /\ max_count' = mc
    /\ entries' = <<>>
    /\ total_size' = 0
    /\ done' = FALSE
    /\ fpc' = "loop"
    /\ UNCHANGED <<prod, ppos, max_response_size, freply, returned, dropped>>
    /\ UNCHANGED <<mode, tvars, uvars, svars, bvars, cvars, dvars, kvars>>

FetchIterChecksAfter(fails) ==
    /\ mode = "fetch"
    /\ fpc = "loop"
    /\ LoopCond(Len(entries), total_size)
    /\ IF fails
       THEN /\ freply' = [tag |-> "Err", entries |-> <<>>, done |-> FALSE]
            /\ dropped' = dropped \cup {entries[i] : i \in 1..Len(entries)}
            /\ fpc' = "idle"
            /\ UNCHANGED <<ppos, entries, total_size, done>>
       ELSE IF ppos = Len(prod)
       THEN /\ done' = TRUE
            /\ fpc' = "built"
            /\ UNCHANGED <<ppos, entries, total_size, freply, dropped>>
       ELSE /\ ppos' = ppos + 1
            /\ IF total_size + prod[ppos + 1] > max_total_size
               THEN /\ fpc' = "built"
                    /\ UNCHANGED <<entries, total_size>>
               ELSE /\ entries' = Append(entries, ppos + 1)
                    /\ total_size' = total_size + prod[ppos + 1]
                    /\ UNCHANGED fpc
            /\ UNCHANGED <<done, freply, dropped>>
    /\ UNCHANGED <<prod, max_response_size, max_count, returned, nfetch>>
    /\ UNCHANGED <<mode, tvars, uvars, svars, bvars, cvars, dvars, kvars>>

FetchIterForgetsDone(fails) ==
    /\ mode = "fetch"
    /\ fpc = "loop"
    /\ LoopCond(Len(entries), total_size)
    /\ IF fails
       THEN /\ freply' = [tag |-> "Err", entries |-> <<>>, done |-> FALSE]
            /\ dropped' = dropped \cup {entries[i] : i \in 1..Len(entries)}
            /\ fpc' = "idle"
            /\ UNCHANGED <<ppos, entries, total_size, done>>
       ELSE IF ppos = Len(prod)
       THEN /\ fpc' = "built"
            /\ UNCHANGED <<ppos, entries, total_size, done, freply, dropped>>
       ELSE /\ ppos' = ppos + 1
            /\ entries' = Append(entries, ppos + 1)
            /\ total_size' = total_size + prod[ppos + 1]
            /\ UNCHANGED <<done, fpc, freply, dropped>>
    /\ UNCHANGED <<prod, max_response_size, max_count, returned, nfetch>>
    /\ UNCHANGED <<mode, tvars, uvars, svars, bvars, cvars, dvars, kvars>>

\* one turn of the loop: cursor_hnd.fetch().await? returns Err (`fails`), None
\* when the producer is exhausted, or the producer's next entry
FetchIter(fails) ==
    /\ mode = "fetch"
    /\ fpc = "loop"
    /\ LoopCond(Len(entries), total_size)
    /\ IF fails
       THEN /\ freply' = [tag |-> "Err", entries |-> <<>>, done |-> FALSE]
            /\ dropped' = dropped \cup {entries[i] : i \in 1..Len(entries)}
            /\ fpc' = "idle"
            /\ UNCHANGED <<ppos, entries, total_size, done>>
       ELSE IF ppos = Len(prod)
       THEN /\ done' = TRUE
            /\ fpc' = "built"
            /\ UNCHANGED <<ppos, entries, total_size, freply, dropped>>
       ELSE /\ ppos' = ppos + 1
            /\ entries' = Append(entries, ppos + 1)
            /\ total_size' = total_size + prod[ppos + 1]
            /\ UNCHANGED <<done, fpc, freply, dropped>>
    /\ UNCHANGED <<prod, max_response_size, max_count, returned, nfetch>>
    /\ UNCHANGED <<mode, tvars, uvars, svars, bvars, cvars, dvars, kvars>>

\* the loop has ended: Ok(FetchCursorResp { entries, done })
FetchReply ==
    /\ mode = "fetch"
    /\ fpc = "built" \/ (fpc = "loop" /\ ~LoopCond(Len(entries), total_size))
    /\ freply' = [tag |-> "Ok", entries |-> entries, done |-> done]
    /\ returned' = returned \o entries
    /\ fpc' = "idle"
    /\ UNCHANGED <<prod, ppos, max_response_size, max_count, entries, total_size,
                   done, dropped, nfetch>>
    /\ UNCHANGED <<mode, tvars, uvars, svars, bvars, cvars, dvars, kvars>>

(***************************************************************************)
(* DumpStream::poll_next.                                                  *)
(***************************************************************************)
InnerItems == {"chunk", "ioerr"}
InnerStreams == UNION {[1..n -> InnerItems] : n \in 0..MaxChunks}

PollPending == [from |-> "pending"]
End == [from |-> "end"]
\* Some(item.map_err(Into::into)): the i-th item of the inner stream
Forwarded(i) == [from |-> "inner", i |-> i,
                 v |-> IF dall[i] = "chunk" THEN "Ok" ELSE "Err"]
TaskErr(v) == [from |-> "task", v |-> v]

PollJoinKeepsHandle ==
    IF ~join_handle THEN [r |-> End, jh |-> FALSE]
    ELSE IF task = "running" THEN [r |-> PollPending, jh |-> TRUE]
    ELSE IF task = "err" THEN [r |-> TaskErr("err"), jh |-> TRUE]
    ELSE IF task = "panic" THEN [r |-> TaskErr("Dump task crashed"), jh |-> TRUE]
    ELSE [r |-> End, jh |-> TRUE]

\* the else branch of poll_next: join_handle.take() and the poll of the task;
\* the handle is put back only when the task is still running
PollJoin ==
    IF ~join_handle THEN [r |-> End, jh |-> FALSE]
    ELSE IF task = "running" THEN [r |-> PollPending, jh |-> TRUE]
    ELSE IF task = "err" THEN [r |-> TaskErr("err"), jh |-> FALSE]
    ELSE IF task = "panic" THEN [r |-> TaskErr("Dump task crashed"), jh |-> FALSE]
    ELSE [r |-> End, jh |-> FALSE]

\* the result `r` of a poll_next is handed to the caller
Yield(r) ==
    /\ dlast' = r
    /\ dout' = IF r = PollPending THEN dout ELSE Append(dout, r)
    /\ npolls' = npolls + 1

\* poll_next: `ready` is whether the inner stream has something to report
poll_next(ready) ==
    /\ mode = "dump"
    /\ npolls < MaxPolls
    /\ IF ~dterm
       THEN IF ~ready
            THEN /\ Yield(PollPending)
                 /\ UNCHANGED <<dpos, dterm, join_handle>>
            ELSE IF dpos < Len(dall)
            THEN /\ Yield(Forwarded(dpos + 1))
                 /\ dpos' = dpos + 1
                 /\ UNCHANGED <<dterm, join_handle>>
            ELSE /\ dterm' = TRUE
                 /\ Yield(PollJoin.r)
                 /\ join_handle' = PollJoin.jh
                 /\ UNCHANGED dpos
       ELSE /\ Yield(PollJoin.r)
            /\ join_handle' = PollJoin.jh
            /\ UNCHANGED <<dpos, dterm>>
    /\ UNCHANGED <<dall, task>>
    /\ UNCHANGED <<mode, tvars, uvars, svars, bvars, cvars, fvars, kvars>>

\* the exporter task returns Ok, returns an error, or panics
TaskEnds(res) ==
    /\ mode = "dump"
    /\ task = "running"
    /\ task' = res
    /\ UNCHANGED <<dall, dpos, dterm, join_handle, dout, dlast, npolls>>
    /\ UNCHANGED <<mode, tvars, uvars, svars, bvars, cvars, fvars, kvars>>

(***************************************************************************)
(* store() called from several threads on one DatabaseConfigStore. Each    *)
(* fs::write is taken as one step: the schedules explored are those in     *)
(* which no write to the staging file is interrupted by another call.      *)
(***************************************************************************)
Storers == 1..NumStorers
NoReturn == [file |-> Absent, snap |-> DefaultConfig]

\* the configs the callers store: one per caller at most, all different
StoredConfigs ==
    {[block_reads |-> TRUE, block_writes |-> FALSE, block_reason |-> None],
     [block_reads |-> FALSE, block_writes |-> TRUE, block_reason |-> Some("x")],
     [block_reads |-> TRUE, block_writes |-> TRUE, block_reason |-> Some("x")]}

\* a caller enters store(): serde_json::to_vec_pretty(&config)?
ConcStoreCall(c, cfg, ok) ==
    /\ mode = "stores"
    /\ kpc[c] = "idle"
    /\ \A d \in Storers : kpc[d] # "idle" => kconfig[d] # cfg
    /\ kconfig' = [kconfig EXCEPT ![c] = cfg]
    /\ IF ok
       THEN /\ kpc' = [kpc EXCEPT ![c] = "write"]
            /\ UNCHANGED kres
       ELSE /\ kpc' = [kpc EXCEPT ![c] = "done"]
            /\ kres' = [kres EXCEPT ![c] = "SerializeError"]
    /\ UNCHANGED <<kret, cvars>>
    /\ UNCHANGED <<mode, tvars, uvars, svars, bvars, fvars, dvars>>

\* fs::write(&self.tmp_config_path, data)?
ConcWrite(c, ok) ==
    /\ mode = "stores"
    /\ kpc[c] = "write"
    /\ IF ok
       THEN /\ files' = [files EXCEPT ![tmp_config_path] = to_vec_pretty(kconfig[c])]
            /\ kpc' = [kpc EXCEPT ![c] = "rename"]
            /\ UNCHANGED kres
       ELSE /\ kpc' = [kpc EXCEPT ![c] = "done"]
            /\ kres' = [kres EXCEPT ![c] = "IOError"]
            /\ UNCHANGED files
    /\ UNCHANGED <<kconfig, kret>>
    /\ UNCHANGED <<snapshot, spc, config, data, sres, prevFile, prevSnap, got,
                   loaded, alive, nstores, gvars>>
    /\ UNCHANGED <<mode, tvars, uvars, svars, bvars, fvars, dvars>>

\* fs::rename(&self.tmp_config_path, &self.config_path)?: it fails when the
\* staging file is not there, another call having renamed it away
ConcRename(c, ok) ==
    /\ mode = "stores"
    /\ kpc[c] = "rename"
    /\ IF ok /\ files[tmp_config_path] # Absent
       THEN /\ files' = Renamed(files, tmp_config_path, config_path)
            /\ kpc' = [kpc EXCEPT ![c] = "swap"]
            /\ UNCHANGED kres
       ELSE /\ kpc' = [kpc EXCEPT ![c] = "done"]
            /\ kres' = [kres EXCEPT ![c] = "IOError"]
            /\ UNCHANGED files
    /\ UNCHANGED <<kconfig, kret>>
    /\ UNCHANGED <<snapshot, spc, config, data, sres, prevFile, prevSnap, got,
                   loaded, alive, nstores, gvars>>
    /\ UNCHANGED <<mode, tvars, uvars, svars, bvars, fvars, dvars>>

\* *self.config.lock() = Arc::new(config); Ok(())
ConcSwap(c) ==
    /\ mode = "stores"
    /\ kpc[c] = "swap"
    /\ arcs' = Append(arcs, kconfig[c])
    /\ cfgArc' = Len(arcs) + 1
    /\ snapshot' = kconfig[c]
    /\ kpc' = [kpc EXCEPT ![c] = "done"]
    /\ kres' = [kres EXCEPT ![c] = "Ok"]
    /\ kret' = [kret EXCEPT ![c] = [file |-> files[config_path],
                                    snap |-> kconfig[c]]]
    /\ UNCHANGED <<kconfig, files, spc, config, data, sres, prevFile, prevSnap,
                   got, loaded, alive, nstores, gotArc, gotAt>>
    /\ UNCHANGED <<mode, tvars, uvars, svars, bvars, fvars, dvars>>

(***************************************************************************)
(* Initial states.                                                         *)
(***************************************************************************)
EmptyMap == [x \in {} |-> 0]

\* no job has been created with a query or an identity in its closure
NoCaptures ==
    /\ closure = [j \in JobIds |-> NoClosure]
    /\ seen = [j \in JobIds |-> NoSeen]
    /\ used = [j \in JobIds |-> NoClosure]

\* handle_initial_hello: a session without streams, SQL texts or cursors
SessionEmpty(budget) ==
    /\ streams = EmptyMap
    /\ sqls = EmptyMap
    /\ cursors = EmptyMap
    /\ nworkers = 0
    /\ box = [w \in Workers |-> <<>>]
    /\ txOpen = [w \in Workers |-> FALSE]
    /\ wpc = [w \in Workers |-> "none"]
    /\ cur = [w \in Workers |-> NoJob]
    /\ db = [w \in Workers |-> FALSE]
    /\ cursor_hnd = [w \in Workers |-> 0]
    /\ njobs = 0
    /\ quota = budget
    /\ sent = [w \in Workers |-> <<>>]
    /\ ran = [w \in Workers |-> <<>>]
    /\ replied = [j \in JobIds |-> 0]
    /\ wlast = [w \in Workers |-> NoReply]
    /\ disp = Ready
    /\ last = NoLast
    /\ authenticated = "A"
    /\ NoCaptures

SessionFresh == SessionEmpty(MaxJobs)

\* a session after OpenStream(1) and MailboxCap Execute requests on that
\* stream, whose worker is still in its first job (the connection factory)
SessionBusy ==
    /\ streams = Insert(EmptyMap, 1, [w |-> 1, cursor_id |-> 0])
    /\ sqls = EmptyMap
    /\ cursors = EmptyMap
    /\ nworkers = 1
    /\ box = [w \in Workers |->
                IF w = 1
                THEN [i \in 1..MailboxCap |->
                        [id |-> i + 1, kind |-> "Execute", w |-> 1, sid |-> 1,
                         cid |-> 0]]
                ELSE <<>>]
    /\ txOpen = [w \in Workers |-> w = 1]
    /\ wpc = [w \in Workers |-> IF w = 1 THEN "run" ELSE "none"]
    /\ cur = [w \in Workers |->
                IF w = 1
                THEN [id |-> 1, kind |-> "OpenStream", w |-> 1, sid |-> 1, cid |-> 0]
                ELSE NoJob]
    /\ db = [w \in Workers |-> FALSE]
    /\ cursor_hnd = [w \in Workers |-> 0]
    /\ njobs = MailboxCap + 1
    /\ quota = BusyJobs
    /\ sent = [w \in Workers |->
                 IF w = 1 THEN [i \in 1..(MailboxCap + 1) |-> i] ELSE <<>>]
    /\ ran = [w \in Workers |-> <<>>]
    /\ replied = [j \in JobIds |-> 0]
    /\ wlast = [w \in Workers |-> NoReply]
    /\ disp = Ready
    /\ last = NoLast
    /\ authenticated = "A"
    /\ NoCaptures

\* a session after OpenStream(1), OpenStream(2) and MailboxCap Execute
\* requests on stream 1: the worker of stream 2 has its connection and waits
\* for a job, that of stream 1 is still in its first job (the connection
\* factory, waiting for a permit), and its mailbox is full
SessionBlocked(budget) ==
    /\ streams = [sid \in {1, 2} |-> [w |-> sid, cursor_id |-> 0]]
    /\ sqls = EmptyMap
    /\ cursors = EmptyMap
    /\ nworkers = 2
    /\ box = [w \in Workers |->
                IF w = 1
                THEN [i \in 1..MailboxCap |->
                        [id |-> i + 2, kind |-> "Execute", w |-> 1, sid |-> 1,
                         cid |-> 0]]
                ELSE <<>>]
    /\ txOpen = [w \in Workers |-> w \in {1, 2}]
    /\ wpc = [w \in Workers |->
                IF w = 1 THEN "run" ELSE IF w = 2 THEN "recv" ELSE "none"]
    /\ cur = [w \in Workers |->
                IF w = 1
                THEN [id |-> 2, kind |-> "OpenStream", w |-> 1, sid |-> 1, cid |-> 0]
                ELSE NoJob]
    /\ db = [w \in Workers |-> w = 2]
    /\ cursor_hnd = [w \in Workers |-> 0]
    /\ njobs = MailboxCap + 2
    /\ quota = budget
    /\ sent = [w \in Workers |->
                 IF w = 1 THEN [i \in 1..(MailboxCap + 1) |-> i + 1]
                 ELSE IF w = 2 THEN <<1>> ELSE <<>>]
    /\ ran = [w \in Workers |-> IF w = 2 THEN <<1>> ELSE <<>>]
    /\ replied = [j \in JobIds |-> IF j = 1 THEN 1 ELSE 0]
    /\ wlast = [w \in Workers |->
                  IF w = 2
                  THEN [id |-> 1, tag |-> "Ok", arg |-> 0, delivered |-> TRUE]
                  ELSE NoReply]
    /\ disp = Ready
    /\ last = NoLast
    /\ authenticated = "A"
    /\ NoCaptures

\* a session after OpenStream(1) whose connection factory has failed: the
\* worker has replied with the error and waits for its next job
SessionFailed ==
    /\ streams = Insert(EmptyMap, 1, [w |-> 1, cursor_id |-> 0])
    /\ sqls = EmptyMap
    /\ cursors = EmptyMap
    /\ nworkers = 1
    /\ box = [w \in Workers |-> <<>>]
    /\ txOpen = [w \in Workers |-> w = 1]
    /\ wpc = [w \in Workers |-> IF w = 1 THEN "recv" ELSE "none"]
    /\ cur = [w \in Workers |-> NoJob]
    /\ db = [w \in Workers |-> FALSE]
    /\ cursor_hnd = [w \in Workers |-> 0]
    /\ njobs = 1
    /\ quota = MaxJobs
    /\ sent = [w \in Workers |-> IF w = 1 THEN <<1>> ELSE <<>>]
    /\ ran = [w \in Workers |-> IF w = 1 THEN <<1>> ELSE <<>>]
    /\ replied = [j \in JobIds |-> IF j = 1 THEN 1 ELSE 0]
    /\ wlast = [w \in Workers |->
                  IF w = 1
                  THEN [id |-> 1, tag |-> "Error", arg |-> 0, delivered |-> TRUE]
                  ELSE NoReply]
    /\ disp = Ready
    /\ last = NoLast
    /\ authenticated = "A"
    /\ NoCaptures

\* a session after OpenStream(1), OpenStream(2) and OpenCursor(1, 1) have
\* run and SqlPreload + 1 texts have been stored
SessionLoadedWith(budget) ==
    /\ streams = [sid \in {1, 2} |->
                    [w |-> sid, cursor_id |-> IF sid = 1 THEN 1 ELSE 0]]
    /\ sqls = [i \in 1..(SqlPreload + 1) |-> "a"]
    /\ cursors = Insert(EmptyMap, 1, 1)
    /\ nworkers = 2
    /\ box = [w \in Workers |-> <<>>]
    /\ txOpen = [w \in Workers |-> w \in {1, 2}]
    /\ wpc = [w \in Workers |-> IF w \in {1, 2} THEN "recv" ELSE "none"]
    /\ cur = [w \in Workers |-> NoJob]
    /\ db = [w \in Workers |-> w \in {1, 2}]
    /\ cursor_hnd = [w \in Workers |-> IF w = 1 THEN 1 ELSE 0]
    /\ njobs = 3
    /\ quota = budget
    /\ sent = [w \in Workers |->
                 IF w = 1 THEN <<1, 3>> ELSE IF w = 2 THEN <<2>> ELSE <<>>]
    /\ ran = [w \in Workers |->
                IF w = 1 THEN <<1, 3>> ELSE IF w = 2 THEN <<2>> ELSE <<>>]
    /\ replied = [j \in JobIds |-> IF j \in {1, 2, 3} THEN 1 ELSE 0]
    /\ wlast = [w \in Workers |->
                  IF w = 1
                  THEN [id |-> 3, tag |-> "Ok", arg |-> 0, delivered |-> TRUE]
                  ELSE IF w = 2
                  THEN [id |-> 2, tag |-> "Ok", arg |-> 0, delivered |-> TRUE]
                  ELSE NoReply]
    /\ disp = Ready
    /\ last = NoLast
    /\ authenticated = "A"
    /\ NoCaptures

SessionLoaded == SessionLoadedWith(ProtoJobs)

SessionOff == version = 1 /\ SessionFresh

ThrottleIdle ==
    /\ M = ThrottleM
    /\ gauge = 0
    /\ semq = <<>>
    /\ pc = [p \in Procs |-> "idle"]
    /\ held = [p \in Procs |-> 0]
    /\ hist = [p \in Procs |-> NoHist]
    /\ calls = 0
    /\ bgDone = 0

\* the throttlers explored: throttled(N, timeout, M), possibly already loaded
Configs ==
    { [t |-> TRUE,  bg |-> 0,      free |-> SmallN],
      [t |-> FALSE, bg |-> 0,      free |-> LargeN],
      [t |-> TRUE,  bg |-> BgLoad, free |-> SmallN] }

ThrottleInit ==
    /\ ThrottleIdle
    /\ \E c \in Configs :
         /\ timeoutCfg = c.t
         /\ bgCalls = c.bg
         /\ waiters = c.bg
         /\ N = c.bg + c.free
         /\ available = c.free

ThrottleOff ==
    /\ ThrottleIdle
    /\ timeoutCfg = FALSE
    /\ bgCalls = 0
    /\ N = SmallN
    /\ available = SmallN
    /\ waiters = 0

BatchOff ==
    /\ batch = <<>>
    /\ steps = <<>>
    /\ limit = 0
    /\ outcomes = <<>>
    /\ slots = <<>>
    /\ txnState = "Init"
    /\ bpc = "call"
    /\ entry = "none"

ConfigOff ==
    /\ files = [f \in Paths |-> Absent]
    /\ snapshot = DefaultConfig
    /\ spc = "idle"
    /\ config = DefaultConfig
    /\ data = <<>>
    /\ sres = "none"
    /\ prevFile = Absent
    /\ prevSnap = DefaultConfig
    /\ got = DefaultConfig
    /\ loaded = [r |-> [ok |-> TRUE, cfg |-> DefaultConfig], when |-> "init"]
    /\ alive = TRUE
    /\ nstores = 0
    /\ arcs = <<DefaultConfig>>
    /\ cfgArc = 1
    /\ gotArc = 1
    /\ gotAt = "init"

FetchOff ==
    /\ prod = <<>>
    /\ ppos = 0
    /\ max_response_size = 0
    /\ max_count = 0
    /\ entries = <<>>
    /\ total_size = 0
    /\ done = FALSE
    /\ fpc = "idle"
    /\ freply = NoFetchReply
    /\ returned = <<>>
    /\ dropped = {}
    /\ nfetch = 0

DumpOff ==
    /\ dall = <<>>
    /\ dpos = 0
    /\ dterm = FALSE
    /\ task = "running"
    /\ join_handle = TRUE
    /\ dout = <<>>
    /\ dlast = PollPending
    /\ npolls = 0

StoresOff ==
    /\ kpc = [c \in Storers |-> "idle"]
    /\ kconfig = [c \in Storers |-> DefaultConfig]
    /\ kres = [c \in Storers |-> "none"]
    /\ kret = [c \in Storers |-> NoReturn]

LaterOff == FetchOff /\ DumpOff /\ StoresOff

OthersOff == BatchOff /\ ConfigOff /\ LaterOff

UnitsOff == upR = 0 /\ upM = 0 /\ upOut = LowUnits

Init ==
    /\ mode = "throttle"
    /\ OthersOff
    /\ ThrottleInit
    /\ UnitsOff
    /\ SessionOff

Next ==
    \/ \E p \in Procs : Enter(p)
    \/ \E p \in Procs : Check(p)
    \/ \E p \in Procs : Resample(p)
    \/ \E p \in Procs : Timeout(p)
    \/ \E p \in Procs, ok \in BOOLEAN : Factory(p, ok)
    \/ \E p \in Procs : ExitCreate(p)
    \/ \E p \in Procs : DropConn(p)
    \/ \E r \in GaugeVals : SetGauge(r)
    \/ BgFinish

Spec == Init /\ [][Next]_vars

UnitsInit ==
    /\ mode = "units"
    /\ OthersOff
    /\ ThrottleOff
    /\ SessionOff
    /\ upR = 0 /\ upM = 0 /\ upOut = units_to_take(0, 0)

UnitsNext == Sample

UnitsSpec == UnitsInit /\ [][UnitsNext]_vars

SessionInit ==
    /\ mode = "session"
    /\ OthersOff
    /\ ThrottleOff
    /\ UnitsOff
    /\ \/ version \in {1, 2, 3} /\ SessionFresh
       \/ version = 3 /\ SessionBusy
       \/ version = 3 /\ SessionFailed

SessionNext ==
    \/ \E sid \in StreamIds : OpenStream(sid)
    \/ \E sid \in StreamIds : CloseStream(sid)
    \/ \E kind \in SimpleKinds, sid \in StreamIds, compiles \in BOOLEAN :
         SimpleRequest(kind, sid, compiles)
    \/ \E sid \in StreamIds, cid \in CursorIds, compiles \in BOOLEAN :
         OpenCursor(sid, cid, compiles)
    \/ \E cid \in CursorIds : CloseCursor(cid)
    \/ \E cid \in CursorIds : FetchCursor(cid)
    \/ Unblock
    \/ \E w \in Workers : Recv(w)
    \/ \E w \in Workers : WorkerExit(w)
    \/ \E w \in Workers, ok \in BOOLEAN, rxgone \in BOOLEAN : Run(w, ok, rxgone)

SessionSpec == SessionInit /\ [][SessionNext]_vars

\* a session that has stored SqlPreload texts already
SqlInit ==
    /\ mode = "sql"
    /\ OthersOff
    /\ ThrottleOff
    /\ UnitsOff
    /\ version \in {1, 2, 3}
    /\ \E pre \in {0, SqlPreload} :
         /\ pre > 0 => version >= MinVersion("StoreSql")
         /\ sqls = [i \in 1..pre |-> "a"]
    /\ streams = EmptyMap
    /\ cursors = EmptyMap
    /\ nworkers = 0
    /\ box = [w \in Workers |-> <<>>]
    /\ txOpen = [w \in Workers |-> FALSE]
    /\ wpc = [w \in Workers |-> "none"]
    /\ cur = [w \in Workers |-> NoJob]
    /\ db = [w \in Workers |-> FALSE]
    /\ cursor_hnd = [w \in Workers |-> 0]
    /\ njobs = 0
    /\ quota = MaxJobs
    /\ sent = [w \in Workers |-> <<>>]
    /\ ran = [w \in Workers |-> <<>>]
    /\ replied = [j \in JobIds |-> 0]
    /\ wlast = [w \in Workers |-> NoReply]
    /\ disp = Ready
    /\ last = NoLast
    /\ authenticated = "A"
    /\ NoCaptures

SqlNext ==
    \/ \E q \in SqlIds, text \in SqlTexts : StoreSql(q, text)
    \/ \E q \in SqlIds : CloseSql(q)

SqlSpec == SqlInit /\ [][SqlNext]_vars

\* every request kind and the repeated hello, on fresh sessions of each
\* version and on a loaded version 3 session. With at most ProtoJobs new jobs
\* no mailbox fills up, so no send blocks.
ProtoInit ==
    /\ mode = "proto"
    /\ OthersOff
    /\ ThrottleOff
    /\ UnitsOff
    /\ \/ /\ version \in {1, 2, 3}
          /\ SessionEmpty(ProtoJobs)
       \/ /\ version = 3
          /\ SessionLoaded

ProtoNext ==
    \/ \E sid \in StreamIds : OpenStream(sid)
    \/ \E sid \in StreamIds : CloseStream(sid)
    \/ \E kind \in SimpleKinds, sid \in StreamIds, compiles \in BOOLEAN :
         SimpleRequest(kind, sid, compiles)
    \/ \E sid \in StreamIds, cid \in CursorIds, compiles \in BOOLEAN :
         OpenCursor(sid, cid, compiles)
    \/ \E cid \in CursorIds : CloseCursor(cid)
    \/ \E cid \in CursorIds : FetchCursor(cid)
    \/ \E q \in ProtoSqlIds : StoreSql(q, "a")
    \/ \E q \in ProtoSqlIds : CloseSql(q)
    \/ \E auth \in Identities \cup {"denied"} : RepeatedHello(auth)
    \/ \E w \in Workers : Recv(w)
    \/ \E w \in Workers : WorkerExit(w)
    \/ \E w \in Workers, ok \in BOOLEAN, rxgone \in BOOLEAN : Run(w, ok, rxgone)

ProtoSpec == ProtoInit /\ [][ProtoNext]_vars

\* the cursor requests on a version 3 session that holds two streams and an
\* open cursor on the first
CursorInit ==
    /\ mode = "cursor"
    /\ OthersOff
    /\ ThrottleOff
    /\ UnitsOff
    /\ version = 3
    /\ SessionLoadedWith(MaxJobs)

CursorNext ==
    \/ \E sid \in StreamIds, cid \in CursorIds, compiles \in BOOLEAN :
         OpenCursor(sid, cid, compiles)
    \/ \E cid \in CursorIds : CloseCursor(cid)
    \/ \E cid \in CursorIds : FetchCursor(cid)
    \/ \E w \in Workers : Recv(w)
    \/ \E w \in Workers, ok \in BOOLEAN, rxgone \in BOOLEAN : Run(w, ok, rxgone)

CursorSpec == CursorInit /\ [][CursorNext]_vars

\* the requests whose jobs execute SQL, together with StoreSql, CloseSql and
\* the repeated hello, on a version 3 session that holds two streams and
\* stored texts; each job's query and identity are followed from the request
\* to the execution
CaptureInit ==
    /\ mode = "capture"
    /\ OthersOff
    /\ ThrottleOff
    /\ UnitsOff
    /\ version = 3
    /\ SessionLoadedWith(CaptureJobs)

CaptureNext ==
    \/ \E kind \in SimpleKinds, sid \in StreamIds, compiles \in BOOLEAN :
         SimpleRequest(kind, sid, compiles)
    \/ \E sid \in StreamIds, cid \in CursorIds, compiles \in BOOLEAN :
         OpenCursor(sid, cid, compiles)
    \/ \E q \in CaptureSqlIds, text \in SqlTexts : StoreSql(q, text)
    \/ \E q \in CaptureSqlIds : CloseSql(q)
    \/ \E auth \in Identities \cup {"denied"} : RepeatedHello(auth)
    \/ \E w \in Workers : Recv(w)
    \/ \E w \in Workers, ok \in BOOLEAN, rxgone \in BOOLEAN : Run(w, ok, rxgone)

CaptureSpec == CaptureInit /\ [][CaptureNext]_vars

\* the requests of a version 3 session one of whose two streams has a full
\* mailbox and a worker that is still waiting for its connection
DispatchInit ==
    /\ mode = "dispatch"
    /\ OthersOff
    /\ ThrottleOff
    /\ UnitsOff
    /\ version = 3
    /\ SessionBlocked(DispatchJobs)

DispatchNext ==
    \/ \E sid \in StreamIds : CloseStream(sid)
    \/ \E kind \in DispatchKinds, sid \in StreamIds :
         SimpleRequest(kind, sid, TRUE)
    \/ \E q \in CaptureSqlIds : StoreSql(q, "a")
    \/ \E q \in CaptureSqlIds : CloseSql(q)
    \/ Unblock
    \/ \E w \in Workers : Recv(w)
    \/ \E w \in Workers : WorkerExit(w)
    \/ \E w \in Workers, ok \in BOOLEAN : Run(w, ok, FALSE)

DispatchSpec == DispatchInit /\ [][DispatchNext]_vars

\* execute_batch_or_rollback on every batch of at most MaxBatch statements,
\* on a connection with or without an open transaction
BatchInit ==
    /\ mode = "batch"
    /\ ThrottleOff
    /\ UnitsOff
    /\ SessionOff
    /\ ConfigOff
    /\ LaterOff
    /\ batch \in Batches
    /\ txnState \in {"Init", "Txn"}
    /\ steps = <<>>
    /\ limit = 0
    /\ outcomes = <<>>
    /\ slots = <<>>
    /\ bpc = "call"
    /\ entry = "none"

BatchNext ==
    \/ Lower
    \/ \E ok \in BOOLEAN : ExecStep(ok)
    \/ ProgramEnds
    \/ ProgramFails

BatchSpec == BatchInit /\ [][BatchNext]_vars

\* execute_batch, execute_batch_or_rollback and rollback, each on every batch
\* of at most MaxBatch statements
ProgramInit ==
    /\ mode = "program"
    /\ ThrottleOff
    /\ UnitsOff
    /\ SessionOff
    /\ ConfigOff
    /\ LaterOff
    /\ batch \in Batches
    /\ txnState \in {"Init", "Txn"}
    /\ steps = <<>>
    /\ limit = 0
    /\ outcomes = <<>>
    /\ slots = <<>>
    /\ bpc = "call"
    /\ entry = "none"

ProgramNext ==
    \/ execute_batch
    \/ Lower
    \/ rollback
    \/ \E ok \in BOOLEAN : ExecStep(ok)
    \/ ProgramEnds
    \/ ProgramFails

ProgramSpec == ProgramInit /\ [][ProgramNext]_vars

\* a store that load() has just built: the directory is empty or holds the
\* document of an earlier store(), and possibly the staging file a crashed
\* store() left behind
ConfigInit ==
    /\ mode = "config"
    /\ ThrottleOff
    /\ UnitsOff
    /\ SessionOff
    /\ BatchOff
    /\ LaterOff
    /\ \E doc \in {Absent} \cup {to_vec_pretty(c) : c \in DatabaseConfig},
          stale \in {Absent, <<>>, SubSeq(to_vec_pretty(DefaultConfig), 1, 2)} :
         /\ files = [f \in Paths |-> IF f = config_path THEN doc ELSE stale]
         /\ snapshot = load([f \in Paths |-> doc]).cfg
         /\ got = load([f \in Paths |-> doc]).cfg
         /\ loaded = [r |-> load([f \in Paths |-> doc]), when |-> "init"]
         /\ prevFile = doc
         /\ prevSnap = load([f \in Paths |-> doc]).cfg
         /\ arcs = <<load([f \in Paths |-> doc]).cfg>>
    /\ cfgArc = 1
    /\ gotArc = 1
    /\ gotAt = "init"
    /\ spc = "idle"
    /\ config = DefaultConfig
    /\ data = <<>>
    /\ sres = "none"
    /\ alive = TRUE
    /\ nstores = 0

ConfigNext ==
    \/ \E c \in DatabaseConfig, ok \in BOOLEAN : StoreCall(c, ok)
    \/ \E ok \in BOOLEAN : WriteOpen(ok)
    \/ \E ok \in BOOLEAN : WriteChunk(ok)
    \/ \E ok \in BOOLEAN : Rename(ok)
    \/ Swap
    \/ Get
    \/ Crash
    \/ Load

ConfigSpec == ConfigInit /\ [][ConfigNext]_vars

\* FetchCursor jobs on one open cursor, for every producer of at most
\* MaxEntries entries and each configured response size
FetchInit ==
    /\ mode = "fetch"
    /\ ThrottleOff
    /\ UnitsOff
    /\ SessionOff
    /\ BatchOff
    /\ ConfigOff
    /\ DumpOff
    /\ StoresOff
    /\ prod \in Producers
    /\ max_response_size \in ResponseSizes
    /\ ppos = 0
    /\ max_count = 0
    /\ entries = <<>>
    /\ total_size = 0
    /\ done = FALSE
    /\ fpc = "idle"
    /\ freply = NoFetchReply
    /\ returned = <<>>
    /\ dropped = {}
    /\ nfetch = 0

FetchNext ==
    \/ \E mc \in 0..MaxCount : FetchCall(mc)
    \/ \E fails \in BOOLEAN : FetchIter(fails)
    \/ FetchReply

FetchSpec == FetchInit /\ [][FetchNext]_vars

\* handle_dump has built the DumpStream: the exporter task is running and
\* nothing has been polled
DumpInit ==
    /\ mode = "dump"
    /\ ThrottleOff
    /\ UnitsOff
    /\ SessionOff
    /\ BatchOff
    /\ ConfigOff
    /\ FetchOff
    /\ StoresOff
    /\ dall \in InnerStreams
    /\ dpos = 0
    /\ dterm = FALSE
    /\ task = "running"
    /\ join_handle = TRUE
    /\ dout = <<>>
    /\ dlast = PollPending
    /\ npolls = 0

DumpNext ==
    \/ \E ready \in BOOLEAN : poll_next(ready)
    \/ \E res \in {"ok", "err", "panic"} : TaskEnds(res)

DumpSpec == DumpInit /\ [][DumpNext]_vars

\* a store that load() has built on an empty directory, and NumStorers
\* threads that each call store() once
StoresInit ==
    /\ mode = "stores"
    /\ ThrottleOff
    /\ UnitsOff
    /\ SessionOff
    /\ BatchOff
    /\ ConfigOff
    /\ FetchOff
    /\ DumpOff
    /\ StoresOff

StoresNext ==
    \/ \E c \in Storers, cfg \in StoredConfigs, ok \in BOOLEAN :
         ConcStoreCall(c, cfg, ok)
    \/ \E c \in Storers, ok \in BOOLEAN : ConcWrite(c, ok)
    \/ \E c \in Storers, ok \in BOOLEAN : ConcRename(c, ok)
    \/ \E c \in Storers : ConcSwap(c)

StoresSpec == StoresInit /\ [][StoresNext]_vars

(***************************************************************************)
(* Fairness: every call that can take its next step takes it, the timer of *)
(* a parked call fires, and live connections are dropped. New calls, gauge *)
(* movements and the anonymous calls are not forced.                       *)
(***************************************************************************)
FairSpec ==
    /\ Spec
    /\ \A p \in Procs :
         /\ WF_vars(Check(p))
         /\ WF_vars(Resample(p))
         /\ WF_vars(Timeout(p))
         /\ WF_vars(\E ok \in BOOLEAN : Factory(p, ok))
         /\ WF_vars(ExitCreate(p))
         /\ WF_vars(DropConn(p))

(***************************************************************************)
(* Properties of the throttler.                                            *)
(***************************************************************************)
RECURSIVE SumHeld(_, _)
SumHeld(h, S) ==
    IF S = {} THEN 0
    ELSE LET p == CHOOSE x \in S : TRUE IN h[p] + SumHeld(h, S \ {p})

LiveConns == {p \in Procs : pc[p] = "live"}
InFlight == {p \in Procs : pc[p] \notin {"idle", "live"}}
Parked(p) == pc[p] \in {"wait1", "wait2"}
MaxOf(a, b) == IF a >= b THEN a ELSE b
Before(q, p, s) ==
    \E i, j \in 1..Len(s) : i < j /\ s[i] = q /\ s[j] = p

\* C1: the units held by live TrackedConnections, plus the units held by
\* create() calls in flight, plus the semaphore's available units, equal N in
\* every reachable state; hence at most N connections coexist.
C1_UnitsConserved ==
    /\ SumHeld(held, LiveConns) + SumHeld(held, InFlight) + bgCalls + available = N
    /\ available >= 0
    /\ Cardinality(LiveConns) <= N

C1_Witness ==
    /\ Cardinality(LiveConns) = N
    /\ \E p \in Procs : pc[p] = "wait1"

\* all N units are in the permits of live connections
FullByLive == SumHeld(held, LiveConns) = N
FullByLiveNext == SumHeld(held', {p \in Procs : pc'[p] = "live"}) = N

C3_HoldsMaxOfSamples ==
    \A p \in Procs :
        (pc[p] = "exit" /\ hist[p].result = "Ok")
            => held[p] = MaxOf(hist[p].u1, hist[p].u2)

\* C4: create() fails with TooManyRequests exactly when the counter value it
\* reads after its own increment is at least 128; such a call takes no units
\* from the semaphore and does not invoke the factory.
C4_TooManyExactlyAt128 ==
    [][\A p \in Procs :
         /\ (pc[p] = "entered" /\ pc'[p] # "entered")
            => ( (hist'[p].result = "TooManyRequests") <=> (waiters >= 128) )
         /\ (hist'[p].result = "TooManyRequests")
            => /\ pc[p] \in {"entered", "exit"}
               /\ held'[p] = 0
               /\ ~hist'[p].made
               /\ pc[p] = "entered" =>
                    available' = available /\ semq' = semq /\ held' = held
      ]_vars

C4_Witness ==
    \E p \in Procs :
        /\ pc[p] = "exit"
        /\ hist[p].result = "TooManyRequests"
        /\ waiters >= 128

\* C5: units_to_take is 16 when R*2 > M, otherwise 4 when R*4 > M, otherwise
\* 1, for every gauge value R and maximum M.
C5_UnitsToTake ==
    mode = "units" =>
        /\ upOut \in {1, 4, 16}
        /\ (upOut = 16) <=> (upR * 2 > upM)
        /\ (upOut = 4) <=> (upR * 2 <= upM /\ upR * 4 > upM)
        /\ (upOut = 1) <=> (upR * 4 <= upM)

C5_Witness ==
    /\ mode = "units"
    /\ upR * 2 > upM
    /\ upR * 4 > upM
    /\ upM > 0
    /\ upOut = 16

\* C6: a create() that ended with TooManyRequests, DbCreateTimeout or a
\* factory error holds no units; a dropped TrackedConnection holds none; no
\* unit is returned twice; and when no connection is live and no create() is
\* in flight the semaphore has exactly N available units.
C6_UnitsReturnedOnce ==
    /\ \A p \in Procs :
         /\ pc[p] \in {"idle", "entered", "wait1"} => held[p] = 0
         /\ (pc[p] = "exit" /\ hist[p].result # "Ok") => held[p] = 0
    /\ available + bgCalls <= N
    /\ (LiveConns = {} /\ InFlight = {} /\ bgCalls = 0) => available = N

C6_Witness ==
    /\ calls = MaxCalls
    /\ LiveConns = {} /\ InFlight = {} /\ bgCalls = 0
    /\ available = N
    /\ timeoutCfg

StreamsWithCursor == {s \in DOMAIN streams : streams[s].cursor_id # 0}

\* C8: the cursors map and the streams map agree: cursors[c] = s exactly when
\* streams holds s and streams[s].cursor_id = Some(c); hence there are as many
\* cursor entries as streams with a cursor id, and neither the assert_eq! of
\* CloseCursor and FetchCursor nor their stream lookup ever fails.
C8_CursorsMatchStreams ==
    /\ \A c \in CursorIds, s \in StreamIds :
         (c \in DOMAIN cursors /\ cursors[c] = s)
           <=> (s \in DOMAIN streams /\ streams[s].cursor_id = c)
    /\ \A c \in DOMAIN cursors : c \in CursorIds /\ cursors[c] \in StreamIds
    /\ Cardinality(DOMAIN cursors) = Cardinality(StreamsWithCursor)
    /\ disp # Panicked
    /\ last.err # "panic"
    /\ last.err = "StreamNotFound" => last.arg \notin DOMAIN streams

\* a FetchCursor request has passed the assert_eq! and its job is running
C8_Witness ==
    \E w \in Workers :
      /\ cur[w].kind = "FetchCursor"
      /\ cur[w].cid \in DOMAIN cursors
      /\ streams[cursors[cur[w].cid]].cursor_id = cur[w].cid

\* C9 as stated: the sqls map never holds more than 150 entries, and any
\* StoreSql issued while it holds 150 fails with SqlTooMany, whatever its sql
\* id, and leaves the map unchanged.
C9_AnyStoreSqlAtLimitTooMany ==
    [][ /\ Cardinality(DOMAIN sqls') <= MAX_SQL_COUNT
        /\ (/\ Cardinality(DOMAIN sqls) = MAX_SQL_COUNT
            /\ \E q \in SqlIds, text \in SqlTexts : StoreSql(q, text))
             => (last'.err = "SqlTooMany" /\ sqls' = sqls) ]_vars

\* C9 amended: the sqls map never holds more than 150 entries; a StoreSql
\* issued while it holds 150 leaves the map unchanged and fails with SqlExists
\* when its sql id is already stored, with SqlTooMany{count: 150} otherwise.
C9_SqlLimit ==
    [][ /\ Cardinality(DOMAIN sqls) <= MAX_SQL_COUNT
        /\ Cardinality(DOMAIN sqls') <= MAX_SQL_COUNT
        /\ \A q \in SqlIds :
             (/\ Cardinality(DOMAIN sqls) = MAX_SQL_COUNT
              /\ \E text \in SqlTexts : StoreSql(q, text))
               => /\ sqls' = sqls
                  /\ last'.err = IF q \in DOMAIN sqls THEN "SqlExists"
                                 ELSE "SqlTooMany"
                  /\ last'.err = "SqlTooMany" => last'.arg = MAX_SQL_COUNT ]_vars

\* the map holds 150 entries and a StoreSql with a new id has just failed
C9_Witness ==
    /\ Cardinality(DOMAIN sqls) = MAX_SQL_COUNT
    /\ last.err = "SqlTooMany"
    /\ last.arg = MAX_SQL_COUNT

RECURSIVE JobIdsOf(_)
JobIdsOf(q) == IF q = <<>> THEN <<>> ELSE <<Head(q).id>> \o JobIdsOf(Tail(q))

Pending(w) ==
    (IF wpc[w] = "run" THEN <<cur[w].id>> ELSE <<>>) \o JobIdsOf(box[w])

\* C10: each stream's worker executes the jobs in exactly the order in which
\* handle_request enqueued them: what it has run, the job it is running and
\* its mailbox are, in this order, the jobs sent to it, whether the replies
\* were received or their receivers dropped.
C10_JobsRunInSendOrder ==
    \A w \in Workers : ran[w] \o Pending(w) = sent[w]

\* a worker has run three jobs in order although the receiver of a reply was
\* dropped, and still has jobs in its mailbox
C10_Witness ==
    \E w \in Workers :
      /\ Len(ran[w]) >= 3
      /\ wlast[w].id = ran[w][Len(ran[w])]
      /\ ~wlast[w].delivered
      /\ Len(box[w]) >= 2

DbKinds == SimpleKinds \cup {"OpenCursor"}

\* C11: when the connection factory fails in the OpenStream job, the stream
\* stays registered with db = None; every later Execute, Batch, Sequence,
\* Describe, OpenCursor or GetAutocommit job on it replies StreamNotOpen with
\* the stream's id; CloseStream for it is accepted and its job replies Ok,
\* and OpenStream with the same id is then accepted again, on a new worker.
C11_FailedFactoryStreamNotOpen ==
    [][ /\ \A w \in Workers :
             (wpc[w] = "run" /\ ran'[w] # ran[w])
               => /\ cur[w].kind = "OpenStream"
                       => /\ wlast'[w].tag \in {"Ok", "Error"}
                          /\ db'[w] <=> wlast'[w].tag = "Ok"
                          /\ streams' = streams
                  /\ (~db[w] /\ cur[w].kind \in DbKinds)
                       => /\ wlast'[w].tag = "StreamNotOpen"
                          /\ wlast'[w].arg = cur[w].sid
                          /\ ~db'[w]
                  /\ cur[w].kind = "CloseStream" => wlast'[w].tag = "Ok"
        /\ \A sid \in StreamIds :
             (disp = Ready /\ sid \in DOMAIN streams /\ CloseStream(sid))
               => /\ sid \notin DOMAIN streams'
                  /\ last' = NoLast
                  /\ njobs' = njobs + 1
        /\ \A sid \in StreamIds :
             (disp = Ready /\ sid \notin DOMAIN streams /\ OpenStream(sid))
               => /\ sid \in DOMAIN streams'
                  /\ streams'[sid].w = nworkers + 1
                  /\ last' = NoLast ]_vars

\* a stream whose factory failed has replied StreamNotOpen to a later job,
\* was closed, and its id is registered again with a new worker
C11_Witness ==
    \E w \in Workers :
      /\ wlast[w].tag = "StreamNotOpen"
      /\ ~db[w]
      /\ ~txOpen[w]
      /\ wlast[w].arg \in DOMAIN streams
      /\ streams[wlast[w].arg].w # w

(***************************************************************************)
(* Properties of request dispatch, over every request kind.                *)
(***************************************************************************)
GatedAt2 == {"Sequence", "Describe", "StoreSql", "CloseSql"}
GatedAt3 == {"OpenCursor", "CloseCursor", "FetchCursor", "GetAutocommit"}

\* the request was refused with NotSupported{min_version: v} and did nothing
Refused(kind, v) ==
    /\ last' = [kind |-> kind, err |-> "NotSupported", arg |-> v]
    /\ njobs' = njobs
    /\ box' = box
    /\ sent' = sent
    /\ nworkers' = nworkers
    /\ streams' = streams
    /\ sqls' = sqls
    /\ cursors' = cursors
    /\ disp' = disp

\* C12: the version gate comes first: Sequence, Describe, StoreSql and CloseSql
\* on a version 1 session, and OpenCursor, CloseCursor, FetchCursor and
\* GetAutocommit on a version 1 or 2 session, fail with NotSupported carrying
\* the minimum version (2, respectively 3), whether or not the stream, sql or
\* cursor id exists, and enqueue no job; OpenStream, CloseStream, Execute and
\* Batch are never refused as NotSupported.
C12_VersionGateFirst ==
    [][ /\ \A kind \in {"Sequence", "Describe"}, sid \in StreamIds, c \in BOOLEAN :
             (version < 2 /\ SimpleRequest(kind, sid, c)) => Refused(kind, 2)
        /\ \A q \in ProtoSqlIds :
             (version < 2 /\ StoreSql(q, "a")) => Refused("StoreSql", 2)
        /\ \A q \in ProtoSqlIds :
             (version < 2 /\ CloseSql(q)) => Refused("CloseSql", 2)
        /\ \A sid \in StreamIds, c \in BOOLEAN :
             (version < 3 /\ SimpleRequest("GetAutocommit", sid, c))
               => Refused("GetAutocommit", 3)
        /\ \A sid \in StreamIds, cid \in CursorIds, c \in BOOLEAN :
             (version < 3 /\ OpenCursor(sid, cid, c)) => Refused("OpenCursor", 3)
        /\ \A cid \in CursorIds :
             (version < 3 /\ CloseCursor(cid)) => Refused("CloseCursor", 3)
        /\ \A cid \in CursorIds :
             (version < 3 /\ FetchCursor(cid)) => Refused("FetchCursor", 3)
        /\ (\/ \E sid \in StreamIds : OpenStream(sid) \/ CloseStream(sid)
            \/ \E kind \in {"Execute", "Batch"}, sid \in StreamIds, c \in BOOLEAN :
                 SimpleRequest(kind, sid, c))
             => last'.err # "NotSupported"
        /\ last'.err = "NotSupported"
             => \/ last'.kind \in GatedAt2 /\ version < 2 /\ last'.arg = 2
                \/ last'.kind \in GatedAt3 /\ version < 3 /\ last'.arg = 3
                \/ last'.kind = "Hello" ]_vars

\* on a version 2 session with a stream and no cursor, FetchCursor of a
\* cursor id that does not exist was refused as NotSupported{3}
C12_Witness ==
    /\ version = 2
    /\ last = [kind |-> "FetchCursor", err |-> "NotSupported", arg |-> 3]
    /\ cursors = EmptyMap
    /\ DOMAIN streams # {}

\* C13: a repeated hello on a session below version 2 fails with NotSupported
\* and changes nothing; on version 2 or 3 it replaces only the authenticated
\* identity when authentication succeeds, and returns an Auth error keeping
\* the previous identity when it fails; streams, sqls and cursors are kept,
\* and no step ever changes the session's version.
C13_RepeatedHello ==
    [][ /\ version' = version
        /\ \A auth \in Identities \cup {"denied"} :
             RepeatedHello(auth)
               => /\ streams' = streams
                  /\ sqls' = sqls
                  /\ cursors' = cursors
                  /\ box' = box
                  /\ njobs' = njobs
                  /\ IF version < 2
                     THEN /\ last'.err = "NotSupported"
                          /\ last'.arg = 2
                          /\ authenticated' = authenticated
                     ELSE IF auth = "denied"
                     THEN /\ last'.err = "Auth"
                          /\ authenticated' = authenticated
                     ELSE /\ last'.err = "none"
                          /\ authenticated' = auth
        /\ authenticated' # authenticated
             => version >= 2 /\ last'.kind = "Hello" /\ last'.err = "none" ]_vars

\* a session with a stream and a stored SQL text whose identity was replaced
\* by a repeated hello, and kept when a later hello was denied
C13_Witness ==
    /\ authenticated = "B"
    /\ last.err = "Auth"
    /\ DOMAIN streams # {}
    /\ DOMAIN sqls # {}

RequestErrors ==
    {"StreamExists", "StreamNotFound", "SqlExists", "SqlTooMany", "CursorExists",
     "CursorNotFound", "CursorAlreadyOpen", "NotSupported", "CompileError"}

\* a step of handle_request
RequestHandled ==
    \/ \E sid \in StreamIds : OpenStream(sid) \/ CloseStream(sid)
    \/ \E kind \in SimpleKinds, sid \in StreamIds, c \in BOOLEAN :
         SimpleRequest(kind, sid, c)
    \/ \E sid \in StreamIds, cid \in CursorIds, c \in BOOLEAN :
         OpenCursor(sid, cid, c)
    \/ \E cid \in CursorIds : CloseCursor(cid) \/ FetchCursor(cid)
    \/ \E q \in ProtoSqlIds : StoreSql(q, "a") \/ CloseSql(q)

\* C14: a request that handle_request rejects with StreamExists,
\* StreamNotFound, SqlExists, SqlTooMany, CursorExists, CursorNotFound,
\* CursorAlreadyOpen, NotSupported or a compile error leaves the streams, sqls
\* and cursors maps and every stream's cursor_id as they were and enqueues no
\* job; handle_request fails in no other way, and stays able to handle the
\* next request.
C14_RejectChangesNothing ==
    [][ (disp = Ready /\ RequestHandled)
          => /\ last'.err \in RequestErrors \cup {"none"}
             /\ last'.err \in RequestErrors
                  => /\ streams' = streams
                     /\ sqls' = sqls
                     /\ cursors' = cursors
                     /\ box' = box
                     /\ sent' = sent
                     /\ njobs' = njobs
                     /\ nworkers' = nworkers
                     /\ disp' = Ready ]_vars

\* OpenCursor(2, 1) was rejected with CursorExists in a session that holds
\* two streams, the cursor of stream 1 and MAX_SQL_COUNT texts, all of them
\* kept, and the session is ready for the next request
C14_Witness ==
    /\ last.err = "CursorExists"
    /\ disp = Ready
    /\ DOMAIN streams = {1, 2}
    /\ streams[1].cursor_id = 1
    /\ streams[2].cursor_id = 0
    /\ DOMAIN cursors = {1}
    /\ Cardinality(DOMAIN sqls) = MAX_SQL_COUNT

(***************************************************************************)
(* Properties of execute_batch_or_rollback.                                *)
(***************************************************************************)
\* C15: for a non-empty batch the program has len(batch) + 1 steps and its
\* last step, at index len(batch), is a ROLLBACK query with want_rows = false
\* and condition Not(Ok(len(batch) - 1)); for the empty batch the program has
\* no step at all.
C15_RollbackTail ==
    bpc # "call"
      => IF batch # <<>>
         THEN /\ Len(steps) = Len(batch) + 1
              /\ steps[Len(batch) + 1].query.stmt = "ROLLBACK"
              /\ steps[Len(batch) + 1].query.want_rows = FALSE
              /\ steps[Len(batch) + 1].cond
                   = [tag |-> "Not",
                      cond |-> [tag |-> "Ok", step |-> Len(batch) - 1]]
              /\ \A i \in 1..Len(batch) : steps[i].query = batch[i]
         ELSE steps = <<>>

\* the program of a batch of two or more statements has been built
C15_Witness ==
    /\ bpc = "run"
    /\ Len(batch) >= 2
    /\ Len(steps) = Len(batch) + 1

\* C16: when the program of a non-empty batch has run: if original step k is
\* the first to fail, the steps before it are Ok, step k is Err, the later
\* original steps are skipped, the rollback tail has executed and the final
\* state is Init; if every original step succeeded the tail was skipped.
C16_ShortCircuitAndRollback ==
    (bpc = "ret" /\ batch # <<>>)
      => LET n == Len(batch) IN
           /\ Len(outcomes) = n + 1
           /\ \A k \in 1..n :
                outcomes[k] = "Err"
                  => /\ \A j \in 1..(k - 1) : outcomes[j] = "Ok"
                     /\ \A j \in (k + 1)..n : outcomes[j] = "Skipped"
                     /\ outcomes[n + 1] \in {"Ok", "Err"}
                     /\ txnState = "Init"
           /\ \A k \in 1..n :
                outcomes[k] = "Skipped" => \E j \in 1..(k - 1) : outcomes[j] = "Err"
           /\ (\A k \in 1..n : outcomes[k] = "Ok") => outcomes[n + 1] = "Skipped"

\* BEGIN succeeded, the second statement failed, the third was skipped, the
\* rollback tail ran and the connection is back in Init
C16_Witness ==
    /\ bpc = "ret"
    /\ Len(batch) >= 3
    /\ batch[1].stmt = "BEGIN"
    /\ SubSeq(outcomes, 1, 3) = <<"Ok", "Err", "Skipped">>
    /\ outcomes[Len(outcomes)] = "Ok"
    /\ txnState = "Init"

\* C17: the engine gets a builder limited to len(batch) slots and the caller
\* gets the original builder back: it holds the results of exactly the
\* original queries, never a slot for the ROLLBACK step, whether that step
\* executed or was skipped.
C17_NoSlotForRollback ==
    /\ bpc # "call" => limit = Len(batch)
    /\ Len(slots) <= Len(batch)
    /\ bpc = "ret"
         => /\ Len(slots) = Len(batch)
            /\ \A i \in 1..Len(batch) : slots[i] = outcomes[i]

\* the rollback tail executed and the caller holds only the original slots
C17_Witness ==
    /\ bpc = "ret"
    /\ Len(slots) >= 2
    /\ Len(outcomes) = Len(slots) + 1
    /\ outcomes[Len(outcomes)] = "Ok"

\* worker w starts a job in this step
Starts(w) == cur'[w] # cur[w] /\ cur'[w] # NoJob

\* C26: a worker starts a job only when it runs none, and when every job
\* enqueued on the stream before it has run and has had its result sent; the
\* db handle and the cursor handle of a stream change only in a step in
\* which the stream's own worker completes the job it runs. Workers of
\* different streams run their jobs at the same time.
C26_OneJobPerStream ==
    [][\A w \in Workers :
         /\ Starts(w) =>
              /\ wpc[w] = "recv"
              /\ cur[w] = NoJob
              /\ cur'[w].w = w
              /\ ran[w] \o <<cur'[w].id>> = SubSeq(sent[w], 1, Len(ran[w]) + 1)
              /\ \A i \in 1..Len(ran[w]) : replied[ran[w][i]] = 1
         /\ (db'[w] # db[w] \/ cursor_hnd'[w] # cursor_hnd[w]) =>
              /\ wpc[w] = "run"
              /\ cur[w].w = w
              /\ ran'[w] = Append(ran[w], cur[w].id)
              /\ replied'[cur[w].id] = 1
              /\ \A v \in Workers \ {w} :
                   db'[v] = db[v] /\ cursor_hnd'[v] = cursor_hnd[v]]_vars

\* the worker of stream 1 has completed its first job and runs its second
\* while the worker of stream 2 runs a job of its own
C26_Witness ==
    /\ wpc[1] = "run"
    /\ wpc[2] = "run"
    /\ Len(ran[1]) = 1
    /\ replied[ran[1][1]] = 1
    /\ cur[1].id > cur[2].id
    /\ cur[1].sid # cur[2].sid

\* worker w completes the job it runs in this step
Completes(w) == ran'[w] # ran[w]

\* C27: a worker leaves the job it has dequeued only by completing it and
\* sending its result, once, on the job's own channel; it then waits for the
\* next job, whether the result was an error and whether the receiver was
\* still there; and the job it starts next is the next one enqueued on the
\* stream, whatever became of the previous result.
C27_EveryJobCompletesAndReplies ==
    [][\A w \in Workers :
         /\ (wpc[w] = "run" /\ (wpc'[w] # "run" \/ cur'[w] # cur[w])) => Completes(w)
         /\ Completes(w) =>
              /\ wpc[w] = "run"
              /\ ran'[w] = Append(ran[w], cur[w].id)
              /\ replied[cur[w].id] = 0
              /\ replied' = [replied EXCEPT ![cur[w].id] = 1]
              /\ wlast'[w].id = cur[w].id
              /\ wpc'[w] = "recv"
              /\ box'[w] = box[w]
         /\ Starts(w) => cur'[w].id = sent[w][Len(ran[w]) + 1]]_vars

\* the worker of stream 1 sent an error that nobody received, and now runs
\* the job enqueued after the one that failed
C27_Witness ==
    /\ wpc[1] = "run"
    /\ Len(ran[1]) >= 2
    /\ wlast[1].id = ran[1][Len(ran[1])]
    /\ wlast[1].tag \in {"Error", "StreamNotOpen"}
    /\ ~wlast[1].delivered
    /\ replied[wlast[1].id] = 1
    /\ cur[1].id = sent[1][Len(ran[1]) + 1]

\* the stream of worker w has been closed, and whether the dispatcher is
\* still inside the send of its close job
Closed(w) == w <= nworkers /\ \A sid \in DOMAIN streams : streams[sid].w # w
Closing(w) == disp.tag = "sending" /\ disp.job.w = w /\ disp.job.kind = "CloseStream"
Last(q) == q[Len(q)]

\* C28: when CloseStream is accepted, the stream and its cursor id leave the
\* session in that step. Once its close job is in the mailbox the sender is
\* gone, the close job is the last job of the mailbox, and nothing is
\* enqueued on that worker again. The worker terminates only when it has run
\* every job sent to it, the last of them being the close job, which replied
\* CloseStream.
C28_CloseStreamIsTerminal ==
    [][\A w \in Workers :
         /\ (Closed(w)' /\ ~Closed(w)) =>
              /\ \A c \in DOMAIN cursors' : cursors'[c] \in DOMAIN streams'
              /\ \E sid \in DOMAIN streams :
                   /\ streams[sid].w = w
                   /\ streams' = Remove(streams, sid)
                   /\ streams[sid].cursor_id # 0 =>
                        cursors' = Remove(cursors, streams[sid].cursor_id)
              /\ ~Closing(w)' => Last(sent'[w]) = njobs'
         /\ (Closed(w)' /\ ~Closing(w)') =>
              /\ ~txOpen'[w]
              /\ box'[w] # <<>> => /\ Last(box'[w]).kind = "CloseStream"
                                   /\ Last(box'[w]).id = Last(sent'[w])
              /\ (box'[w] = <<>> /\ wpc'[w] = "run") =>
                   /\ cur'[w].kind = "CloseStream"
                   /\ cur'[w].id = Last(sent'[w])
         /\ (Closed(w) /\ ~Closing(w)) => sent'[w] = sent[w]
         /\ (wpc'[w] = "done" /\ wpc[w] # "done") =>
              /\ Closed(w)
              /\ box[w] = <<>>
              /\ ran[w] = sent[w]
              /\ wlast[w].id = Last(sent[w])
              /\ wlast[w].tag = "Ok"]_vars

\* stream 1 was closed with a job of its own still in the mailbox; its worker
\* ran that job, then the close job, and has terminated
C28_Witness ==
    /\ Closed(1)
    /\ wpc[1] = "done"
    /\ Len(ran[1]) >= 3
    /\ ran[1] = sent[1]
    /\ replied[Last(ran[1])] = 1
    /\ 1 \notin DOMAIN streams

\* the streams that own cursor id c
Owners(strs, c) == {s \in DOMAIN strs : strs[s].cursor_id = c}

\* C29 as stated: on an existing stream of a version 3 session, OpenCursor
\* fails with CursorAlreadyOpen if the stream owns a cursor id and with
\* CursorExists if the cursor id is in cursors, on whichever stream;
\* otherwise it records the cursor in both maps.
C29_OpenCursorErrorsAsStated ==
    [][\A sid \in StreamIds, cid \in CursorIds :
         (/\ disp = Ready
          /\ version >= MinVersion("OpenCursor")
          /\ sid \in DOMAIN streams
          /\ \E c \in BOOLEAN : OpenCursor(sid, cid, c))
           => /\ streams[sid].cursor_id # 0 => last'.err = "CursorAlreadyOpen"
              /\ cid \in DOMAIN cursors => last'.err = "CursorExists"]_vars

\* C29, amended: on an existing stream of a version 3 session, OpenCursor
\* fails with CursorAlreadyOpen if the stream owns a cursor id, whatever the
\* requested id; else with CursorExists if the id is in cursors; else with
\* the compile error of its batch; and these change neither map. Otherwise
\* cursors[cid] = sid and the stream's cursor_id = cid are recorded in one
\* step. No cursor id is ever owned by two streams, and an id is in cursors
\* exactly when the stream it names owns it.
C29_OpenCursorRegistration ==
    [][/\ \A c \in CursorIds :
            /\ Cardinality(Owners(streams', c)) <= 1
            /\ c \in DOMAIN cursors' <=> Owners(streams', c) # {}
            /\ c \in DOMAIN cursors' => Owners(streams', c) = {cursors'[c]}
       /\ \A sid \in StreamIds, cid \in CursorIds :
            (/\ disp = Ready
             /\ version >= MinVersion("OpenCursor")
             /\ sid \in DOMAIN streams
             /\ \E c \in BOOLEAN : OpenCursor(sid, cid, c))
              => /\ last'.err = IF streams[sid].cursor_id # 0 THEN "CursorAlreadyOpen"
                                ELSE IF cid \in DOMAIN cursors THEN "CursorExists"
                                ELSE IF njobs' = njobs THEN "CompileError"
                                ELSE "none"
                 /\ last'.err # "none" => (cursors' = cursors /\ streams' = streams)
                 /\ (last'.err = "none" /\ disp' = Ready) =>
                      /\ cursors' = Insert(cursors, cid, sid)
                      /\ streams' = [streams EXCEPT ![sid].cursor_id = cid]
                 /\ (last'.err = "none" /\ disp' # Ready) =>
                      (cursors' = cursors /\ streams' = streams)]_vars

\* stream 1 owns cursor 1, stream 2 exists and owns none, and an OpenCursor
\* has just failed with CursorExists, leaving both maps as they were
C29_Witness ==
    /\ DOMAIN streams = {1, 2}
    /\ streams[1].cursor_id = 1
    /\ streams[2].cursor_id = 0
    /\ cursors = Insert(EmptyMap, 1, 1)
    /\ last.err = "CursorExists"
    /\ last.arg = 1

\* C30: an accepted CloseCursor takes the cursor id out of cursors and clears
\* the owning stream's cursor_id in the step that handles the request, which
\* is all a following OpenCursor on that stream tests. The worker attaches the
\* handle of a new cursor only to a stream whose cursor_hnd is clear, the job
\* of the CloseCursor having run before; and a FetchCursor job finds either no
\* handle or the handle of the cursor it names, never that of a closed one.
C30_CloseThenOpenCursor ==
    [][/\ \A cid \in CursorIds :
            (disp = Ready /\ cid \in DOMAIN cursors /\ cid \notin DOMAIN cursors') =>
              /\ last'.err = "none"
              /\ streams'[cursors[cid]].cursor_id = 0
              /\ Last(sent'[streams[cursors[cid]].w]) = njobs'
              /\ njobs' = njobs + 1
       /\ \A w \in Workers :
            Completes(w) =>
              /\ cur[w].kind = "CloseCursor" => cursor_hnd'[w] = 0
              /\ cur[w].kind = "OpenCursor" =>
                   /\ cursor_hnd[w] = 0
                   /\ cursor_hnd'[w] = IF wlast'[w].tag = "Ok" THEN cur[w].cid ELSE 0
              /\ cur[w].kind = "FetchCursor" =>
                   /\ cursor_hnd[w] \in {0, cur[w].cid}
                   /\ wlast'[w].tag = "CursorNotOpen" <=> cursor_hnd[w] = 0]_vars

\* cursor 1 of stream 1 was closed and cursor 2 opened on the same stream at
\* once; the worker has run both jobs and now runs a FetchCursor for cursor
\* 2, whose handle is the one attached
C30_Witness ==
    /\ streams[1].cursor_id = 2
    /\ cursors = Insert(EmptyMap, 2, 1)
    /\ Len(ran[1]) = 4
    /\ wpc[1] = "run"
    /\ cur[1].kind = "FetchCursor"
    /\ cur[1].cid = 2
    /\ cursor_hnd[1] = 2

\* C31: on a session that speaks version 2 or later, StoreSql with a sql id
\* already present in sqls fails with SqlExists and leaves the map as it was,
\* the text of that id included; StoreSql with a fresh id while fewer than
\* 150 texts are stored inserts exactly that (id, text) pair and changes no
\* other entry; CloseSql takes exactly its id out of the map, so that a
\* StoreSql with that id is again one with a fresh id, and when the id was
\* stored the map holds fewer than 150 texts afterwards.
C31_StoreSqlExistsAndFresh ==
    [][/\ \A q \in SqlIds, text \in SqlTexts :
            (version >= MinVersion("StoreSql") /\ StoreSql(q, text))
              => /\ q \in DOMAIN sqls =>
                      /\ last'.err = "SqlExists"
                      /\ last'.arg = q
                      /\ sqls' = sqls
                      /\ sqls'[q] = sqls[q]
                 /\ (q \notin DOMAIN sqls
                       /\ Cardinality(DOMAIN sqls) < MAX_SQL_COUNT) =>
                      /\ last'.err = "none"
                      /\ DOMAIN sqls' = DOMAIN sqls \cup {q}
                      /\ sqls'[q] = text
                      /\ \A x \in DOMAIN sqls : sqls'[x] = sqls[x]
       /\ \A q \in SqlIds :
            (version >= MinVersion("CloseSql") /\ CloseSql(q))
              => /\ last'.err = "none"
                 /\ DOMAIN sqls' = DOMAIN sqls \ {q}
                 /\ \A x \in DOMAIN sqls' : sqls'[x] = sqls[x]
                 /\ q \in DOMAIN sqls =>
                      Cardinality(DOMAIN sqls') < MAX_SQL_COUNT]_vars

\* sql id 1, stored with text "a" from the start, has been closed and stored
\* again with text "b", while the other SqlPreload - 1 texts are as they were
C31_Witness ==
    /\ 1 \in DOMAIN sqls
    /\ sqls[1] = "b"
    /\ last = [kind |-> "StoreSql", err |-> "none", arg |-> 1]
    /\ \A x \in 2..SqlPreload : x \in DOMAIN sqls /\ sqls[x] = "a"

\* the job ids of a sequence are in the order in which the jobs were created
Increasing(q) == \A i, j \in DOMAIN q : i < j => q[i] < q[j]

\* every job created so far was enqueued on exactly one mailbox, or is the
\* one job the dispatcher is still sending
Accounted(n, snt, d) ==
    \A j \in 1..n :
      Cardinality({w \in Workers : \E i \in DOMAIN snt[w] : snt[w][i] = j})
        + (IF d.tag = "sending" /\ d.job.id = j THEN 1 ELSE 0) = 1

\* C33: a mailbox never holds more than 8 jobs. A request that creates a job
\* for a stream whose mailbox holds 8 leaves handle_request inside
\* stream_respond: the job is held by the pending send, nothing is enqueued
\* and no further request is handled; the send completes, appending that job
\* at the tail, only in a state where the mailbox holds fewer than 8, that
\* is after the worker has dequeued a job. Every job created is on exactly one
\* mailbox history or held by the pending send, each mailbox received its
\* jobs in the order of their creation, and the worker runs them in that
\* order.
C33_MailboxBound ==
    [][/\ \A w \in Workers :
            /\ Len(box'[w]) <= MailboxCap
            /\ Increasing(sent'[w])
            /\ ran'[w] \o (IF wpc'[w] = "run" THEN <<cur'[w].id>> ELSE <<>>)
                       \o JobIdsOf(box'[w]) = sent'[w]
       /\ Accounted(njobs', sent', disp')
       /\ njobs' # njobs =>
            /\ disp = Ready
            /\ njobs' = njobs + 1
            /\ \/ /\ disp' = Ready
                  /\ \E w \in Workers :
                       /\ Len(box[w]) < MailboxCap
                       /\ JobIdsOf(box'[w]) = Append(JobIdsOf(box[w]), njobs')
                       /\ \A v \in Workers \ {w} : box'[v] = box[v]
               \/ /\ disp'.tag = "sending"
                  /\ disp'.job.id = njobs'
                  /\ Len(box[disp'.job.w]) = MailboxCap
                  /\ box' = box
                  /\ sent' = sent
       /\ (disp.tag = "sending" /\ disp' # disp) =>
            /\ disp' = Ready
            /\ Len(box[disp.job.w]) < MailboxCap
            /\ box' = [box EXCEPT ![disp.job.w] = Append(@, disp.job)]
            /\ sent' = [sent EXCEPT ![disp.job.w] = Append(@, disp.job.id)]
       /\ disp.tag = "sending" =>
            /\ njobs' = njobs
            /\ last' = last
            /\ sqls' = sqls]_vars

\* a tenth job was created for a stream whose mailbox held 8 while its worker
\* ran the first; the send has completed after the worker dequeued a job, and
\* the mailbox is full again
C33_Witness ==
    /\ Len(sent[1]) = MailboxCap + 2
    /\ Increasing(sent[1])
    /\ Len(box[1]) = MailboxCap
    /\ Len(ran[1]) >= 1
    /\ disp = Ready

(***************************************************************************)
(* What a job executes.                                                    *)
(***************************************************************************)
\* C37: a job that executes SQL does so with the text its request stood for
\* in session.sqls, and with the identity the session had, when the request
\* was handled: StoreSql, CloseSql and repeated hellos handled between the
\* request and the execution change neither. This holds for Execute, Batch,
\* Sequence, Describe and OpenCursor jobs alike.
C37_JobRunsWithDispatchTimeValues ==
    \A j \in JobIds :
      /\ closure[j] # NoClosure =>
           /\ closure[j].sql = Resolve(seen[j].ref, seen[j].sqls)
           /\ closure[j].auth = seen[j].auth
      /\ used[j] # NoClosure =>
           /\ used[j].sql = Resolve(seen[j].ref, seen[j].sqls)
           /\ used[j].auth = seen[j].auth

\* a job whose request named stored text 1 has been executed with that text
\* and the identity of that time, although by then the session had another
\* text under id 1 and another identity
C37_Witness ==
    \E j \in JobIds :
      /\ used[j] # NoClosure
      /\ seen[j].ref = 1
      /\ 1 \in DOMAIN sqls
      /\ sqls[1] # used[j].sql
      /\ authenticated # used[j].auth
      /\ last.kind # "none"

\* C38: while a stream has no connection its worker holds no cursor handle.
\* An OpenCursor job that runs on such a stream fails with StreamNotOpen and
\* attaches nothing, and the session's record of the cursor stays as it is; a
\* FetchCursor job that runs on it replies CursorNotOpen with the cursor id
\* of the request; and a CloseCursor request for a cursor recorded on such a
\* stream is accepted, takes the id out of cursors and clears the stream's
\* cursor_id, so that no stream owns the cursor, and its job replies Ok.
C38_FailedOpenCursor ==
    [][/\ \A w \in Workers : ~db'[w] => cursor_hnd'[w] = 0
       /\ \A w \in Workers :
            (Completes(w) /\ ~db[w]) =>
              /\ cur[w].kind = "OpenCursor" =>
                   /\ wlast'[w].tag = "StreamNotOpen"
                   /\ wlast'[w].arg = cur[w].sid
                   /\ cursor_hnd'[w] = 0
                   /\ ~db'[w]
                   /\ cursors' = cursors
                   /\ streams' = streams
              /\ cur[w].kind = "FetchCursor" =>
                   /\ wlast'[w].tag = "CursorNotOpen"
                   /\ wlast'[w].arg = cur[w].cid
              /\ cur[w].kind = "CloseCursor" =>
                   /\ wlast'[w].tag = "Ok"
                   /\ cursor_hnd'[w] = 0
       /\ \A cid \in CursorIds :
            (/\ disp = Ready
             /\ version >= MinVersion("CloseCursor")
             /\ cid \in DOMAIN cursors
             /\ cursors[cid] \in DOMAIN streams
             /\ ~db[streams[cursors[cid]].w]
             /\ CloseCursor(cid))
              => /\ last'.err = "none"
                 /\ njobs' = njobs + 1
                 /\ cid \notin DOMAIN cursors'
                 /\ streams'[cursors[cid]].cursor_id = 0
                 /\ Owners(streams', cid) = {}]_vars

\* the connection factory of stream 1 has failed; an OpenCursor for cursor 1
\* on it was accepted and its job failed, a FetchCursor for cursor 1 has just
\* been answered with CursorNotOpen(1), and a CloseCursor for it has been
\* accepted: the stream owns no cursor and cursors is empty again
C38_Witness ==
    /\ 1 \in DOMAIN streams
    /\ ~db[streams[1].w]
    /\ Len(ran[streams[1].w]) = 3
    /\ wlast[streams[1].w].tag = "CursorNotOpen"
    /\ wlast[streams[1].w].arg = 1
    /\ njobs = 4
    /\ last.err = "none"
    /\ streams[1].cursor_id = 0
    /\ cursors = EmptyMap
    /\ cursor_hnd[streams[1].w] = 0

(***************************************************************************)
(* Dispatch beside a stream whose mailbox is full.                         *)
(***************************************************************************)
\* the streams whose mailbox holds MailboxCap jobs while their worker is
\* still inside an earlier job
Stuck == {sid \in DOMAIN streams :
            /\ Len(box[streams[sid].w]) = MailboxCap
            /\ wpc[streams[sid].w] = "run"}

\* C39 as stated: while stream A's mailbox holds 8 jobs and its worker is
\* blocked, a request for another stream B, or a session-level request, is
\* handled without waiting.
C39_StreamsNeverBlockDispatch ==
    \A sa \in Stuck :
      \A sb \in (DOMAIN streams) \ {sa} :
        Len(box[streams[sb].w]) < MailboxCap => CanHandle

\* C39, amended: a request that is handled waits in stream_respond only if
\* the mailbox of the stream it addresses is full, whatever the mailboxes and
\* workers of the other streams, and StoreSql and CloseSql never wait. But
\* the session handles one request at a time: while handle_request awaits
\* space in A's mailbox for a further job of A, no request is handled, for B
\* or for the session, until A's worker has taken a job and the waiting job
\* has been enqueued.
C39_DispatchWaitsOnlyForTarget ==
    [][/\ (disp = Ready /\ njobs' = njobs + 1) =>
            \/ /\ disp' = Ready
               /\ \E w \in Workers :
                    /\ Len(box[w]) < MailboxCap
                    /\ Len(box'[w]) = Len(box[w]) + 1
                    /\ Last(box'[w]).id = njobs'
                    /\ \A v \in Workers \ {w} : box'[v] = box[v]
            \/ /\ disp' # Ready
               /\ disp'.job.id = njobs'
               /\ Len(box[disp'.job.w]) = MailboxCap
               /\ box' = box
       /\ (disp = Ready /\ sqls' # sqls) =>
            /\ disp' = Ready
            /\ last'.err = "none"
            /\ box' = box
       /\ disp # Ready =>
            /\ njobs' = njobs
            /\ sqls' = sqls
            /\ last' = last
            /\ disp' \in {disp, Ready}
            /\ disp' = Ready =>
                 /\ Len(box[disp.job.w]) < MailboxCap
                 /\ box' = [box EXCEPT ![disp.job.w] = Append(@, disp.job)]]_vars

\* stream 1 is as it was, its mailbox full and its worker in the connection
\* factory, and meanwhile a text was stored and a request for stream 2 was
\* accepted: its job is the second sent to stream 2, and handle_request has
\* returned
C39_Witness ==
    /\ 1 \in Stuck
    /\ ran[1] = <<>>
    /\ disp = Ready
    /\ 2 \in DOMAIN streams
    /\ Len(sent[2]) = 2
    /\ njobs = MailboxCap + 3
    /\ 1 \in DOMAIN sqls
    /\ last.err = "none"

(***************************************************************************)
(* Properties of the programs built by the methods of Connection.          *)
(***************************************************************************)
\* the step indices a condition refers to
RECURSIVE CondSteps(_)
CondSteps(c) ==
    IF c.tag \in {"Ok", "Err"} THEN {c.step}
    ELSE IF c.tag = "Not" THEN CondSteps(c.cond)
    ELSE {}

\* the first n steps are the queries of b in order, each conditioned on the
\* success of the step before it, the first unconditioned
ChainOf(st, b) ==
    \A i \in 1..Len(b) :
      /\ st[i].query = b[i]
      /\ st[i].cond = IF i = 1 THEN NoCond ELSE [tag |-> "Ok", step |-> i - 2]

\* C32: the steps that make_batch_program gives for a batch of n queries are
\* those n queries in order, step 0 without a condition and step i > 0 with
\* the condition Ok(i-1); execute_batch hands exactly these n steps to
\* execute_program, which runs or skips each once and none after them;
\* rollback() hands over the one unconditioned step ROLLBACK; and in the
\* program of each of the three methods every condition refers only to steps
\* of a strictly smaller index than the step that carries it.
C32_BatchProgramShape ==
    bpc # "call" =>
      /\ entry = "execute_batch" =>
           /\ Len(steps) = Len(batch)
           /\ ChainOf(steps, batch)
           /\ \A i \in 1..Len(steps) : steps[i].query.stmt # "ROLLBACK"
      /\ entry = "rollback" =>
           steps = <<[cond |-> NoCond, query |-> RollbackQuery]>>
      /\ entry = "execute_batch_or_rollback" =>
           /\ Len(steps) >= Len(batch)
           /\ ChainOf(steps, batch)
      /\ \A i \in 1..Len(steps) :
           \A k \in CondSteps(steps[i].cond) : k >= 0 /\ k < i - 1
      /\ Len(outcomes) <= Len(steps)
      /\ bpc = "ret" => Len(outcomes) = Len(steps)

\* execute_batch has run a batch of MaxBatch queries to its end: the program
\* had MaxBatch steps, the last conditioned on the one before it
C32_Witness ==
    /\ entry = "execute_batch"
    /\ Len(batch) = MaxBatch
    /\ bpc = "ret"
    /\ Len(outcomes) = MaxBatch
    /\ steps[MaxBatch].cond = [tag |-> "Ok", step |-> MaxBatch - 2]
    /\ outcomes[MaxBatch] = "Ok"

\* the create() calls in progress, and the same after the step
InProgress == Cardinality(InFlight) + bgCalls
InProgressNext ==
    Cardinality({p \in Procs : pc'[p] \notin {"idle", "live"}}) + bgCalls'

\* C36: the wait counter equals the number of create() calls in progress,
\* from the creation of the guard until the return, whether the call is
\* parked, invokes the factory or was rejected. It grows by one exactly when
\* a call enters and falls by one exactly when a call returns, whatever the
\* result: a connection, TooManyRequests, DbCreateTimeout or the factory's
\* error. It is 0 whenever no create() is in progress.
C36_WaitersCountsCallsInProgress ==
    [][/\ waiters = InProgress
       /\ waiters' = InProgressNext
       /\ InProgressNext = 0 => waiters' = 0
       /\ \A p \in Procs :
            /\ (pc[p] \in {"idle", "live"} /\ pc'[p] \notin {"idle", "live"})
                 => waiters' = waiters + 1
            /\ (pc[p] \notin {"idle", "live"} /\ pc'[p] \in {"idle", "live"})
                 => /\ waiters' = waiters - 1
                    /\ hist[p].result \in {"Ok", "TooManyRequests",
                                           "DbCreateTimeout", "FactoryError"}
                    /\ pc'[p] = "live" <=> hist[p].result = "Ok"
       /\ (InProgressNext = InProgress) => waiters' = waiters]_vars

\* two calls are in progress and counted: one has timed out in its first
\* acquisition and not returned yet, the other invokes the factory
C36_Witness ==
    \E p, q \in Procs :
      /\ pc[p] = "exit"
      /\ hist[p].result = "DbCreateTimeout"
      /\ pc[q] = "factory"
      /\ InFlight = {p, q}
      /\ bgCalls = 0
      /\ waiters = 2

(***************************************************************************)
(* The two acquisitions of create() taken together.                        *)
(***************************************************************************)
\* every create() in progress is parked in its second acquisition, and the
\* units missing from the semaphore are all held by these calls
HoldAndWait ==
    /\ InFlight # {}
    /\ \A p \in InFlight : pc[p] = "wait2"
    /\ bgCalls = 0
    /\ available + SumHeld(held, InFlight) = N

\* C34: with no timeout configured and N >= 16 the throttler never reaches a
\* state in which every create() in progress is parked in its second
\* acquisition while the calls in progress hold all the units that are not
\* free; in particular a create() that is alone on a throttler whose N units
\* are free is never parked in its second acquisition.
C34_NoHoldAndWaitDeadlock ==
    (~timeoutCfg /\ N >= HighUnits) => ~HoldAndWait

(***************************************************************************)
(* store() called from several threads.                                    *)
(***************************************************************************)
\* C35: whenever no store() is in progress, what get() returns is the config
\* that config.json holds, also after store() calls have overlapped; and a
\* store() that returned Ok found, when it returned, its own config both in
\* config.json and in the snapshot, unless both held the config of one other
\* store().
C35_SnapshotMatchesFile ==
    /\ (\A c \in Storers : kpc[c] \in {"idle", "done"}) =>
         load(files) = [ok |-> TRUE, cfg |-> arcs[cfgArc]]
    /\ \A c \in Storers :
         kres[c] = "Ok" =>
           \/ /\ kret[c].file = to_vec_pretty(kconfig[c])
              /\ kret[c].snap = kconfig[c]
           \/ \E d \in Storers \ {c} :
                /\ kpc[d] # "idle"
                /\ kret[c].file = to_vec_pretty(kconfig[d])
                /\ kret[c].snap = kconfig[d]

(***************************************************************************)
(* Properties of DatabaseConfigStore.                                      *)
(***************************************************************************)
StoreErrors == {"SerializeError", "IOError"}

\* C18: once store(c) has returned Ok, get() on the store returns c, and a
\* fresh load() of the directory followed by get() returns c as well; the
\* document of every config parses back to that config.
C18_StoreLoadRoundTrip ==
    /\ \A c \in DatabaseConfig : from_slice(to_vec_pretty(c)) = [ok |-> TRUE, cfg |-> c]
    /\ (sres = "Ok" /\ spc = "idle")
         => /\ snapshot = config
            /\ load(files) = [ok |-> TRUE, cfg |-> config]

\* store() of a config whose reason is the string "null" returned Ok on a
\* directory that held another config; get() and a fresh load() both gave it
C18_Witness ==
    /\ sres = "Ok"
    /\ alive
    /\ config.block_reason = Some("null")
    /\ prevFile # Absent
    /\ prevSnap # config
    /\ got = config
    /\ loaded = [r |-> [ok |-> TRUE, cfg |-> config], when |-> "idle"]

\* C19: wherever store(new) is when the process crashes, config.json is the
\* complete previous document (or absent, if there was none) or the complete
\* new document, never a partial one, so that load() afterwards succeeds
\* with the previous (or default) config or with the new one.
C19_CrashLeavesOldOrNew ==
    /\ files[config_path] \in {prevFile, to_vec_pretty(config)}
    /\ files[config_path] = Absent \/ Complete(files[config_path])
    /\ load(files) \in {[ok |-> TRUE, cfg |-> prevSnap], [ok |-> TRUE, cfg |-> config]}
    /\ loaded.when = "crash"
         => loaded.r \in {[ok |-> TRUE, cfg |-> prevSnap], [ok |-> TRUE, cfg |-> config]}

\* the process crashed while the staging file was half written, and load()
\* then found the previous config, which differs from the new one
C19_Witness ==
    /\ ~alive
    /\ spc = "writing"
    /\ Len(files[tmp_config_path]) \in 1..3
    /\ prevFile # Absent
    /\ prevSnap # config
    /\ loaded = [r |-> [ok |-> TRUE, cfg |-> prevSnap], when |-> "crash"]

\* C20: when store(new) fails, in serializing, in writing the staging file or
\* in renaming it, the caller gets the error, the snapshot that get() returns
\* is the one from before the call, and config.json is unchanged.
C20_FailedStoreChangesNothing ==
    /\ sres \in {"none", "Ok"} \cup StoreErrors
    /\ sres = "Ok" => files[config_path] = to_vec_pretty(config)
    /\ (spc = "idle" /\ sres \in StoreErrors)
         => /\ snapshot = prevSnap
            /\ files[config_path] = prevFile
            /\ load(files) = [ok |-> TRUE, cfg |-> prevSnap]

\* the rename failed: the staging file is complete, config.json and the
\* snapshot are the previous ones, and get() returned the previous config
C20_Witness ==
    /\ sres = "IOError"
    /\ spc = "idle"
    /\ files[tmp_config_path] = to_vec_pretty(config)
    /\ prevFile # Absent
    /\ prevSnap # config
    /\ snapshot = prevSnap
    /\ got = prevSnap

\* a step in which get() returns
GetReturns == <<got, gotArc, gotAt>>' # <<got, gotArc, gotAt>>

\* C21: a get() that runs while store(new) is anywhere in its course returns
\* the whole previous config or the whole new config; it returns the new one
\* only once config.json has been renamed into place; and no step, of a later
\* store() in particular, alters the allocation a get() has returned.
C21_GetSeesOldOrNew ==
    [][/\ arcs'[gotArc] = arcs[gotArc]
       /\ arcs'[gotArc'] = got'
       /\ GetReturns =>
            /\ got' \in {prevSnap, config}
            /\ got' # prevSnap =>
                 /\ files[config_path] = to_vec_pretty(config)
                 /\ sres = "Ok"
                 /\ spc = "idle"]_vars

\* a get() ran after the rename and before the swap and returned the previous
\* config; store() has since returned Ok and the value get() returned is
\* still the previous config, while the store now holds the new one
C21_Witness ==
    /\ gotAt = "swap"
    /\ sres = "Ok"
    /\ spc = "idle"
    /\ prevSnap # config
    /\ got = prevSnap
    /\ arcs[gotArc] = prevSnap
    /\ arcs[cfgArc] = config
    /\ files[config_path] = to_vec_pretty(config)

(***************************************************************************)
(* Properties of the FetchCursor job.                                      *)
(***************************************************************************)
RECURSIVE SizeOf(_)
SizeOf(es) == IF es = <<>> THEN 0 ELSE prod[Head(es)] + SizeOf(Tail(es))

\* the last FetchCursor job has replied with a response
Replied == fpc = "idle" /\ freply.tag = "Ok"

\* C22 as stated: a response holds at most max_count entries and their sizes
\* add up to at most max_response_size/8.
C22_ReplyWithinBothLimits ==
    Replied =>
      /\ Len(freply.entries) <= max_count
      /\ SizeOf(freply.entries) <= max_total_size

\* C22, amended: a response holds at most max_count entries; the sizes of its
\* entries without the last one add up to less than max_response_size/8, so
\* the budget is overrun by less than the size of the last entry; and a
\* response that is not done has reached one of the two limits.
C22_ReplyWithinLimitsButLast ==
    Replied =>
      LET n == Len(freply.entries) IN
        /\ n <= max_count
        /\ n > 0 => SizeOf(SubSeq(freply.entries, 1, n - 1)) < max_total_size
        /\ ~freply.done => (n = max_count \/ SizeOf(freply.entries) >= max_total_size)

\* a response of two entries, fewer than max_count, whose sizes add up to
\* more than the byte budget
C22_Witness ==
    /\ Replied
    /\ Len(freply.entries) = 2
    /\ max_count > 2
    /\ max_total_size > 0
    /\ SizeOf(freply.entries) > max_total_size
    /\ ~freply.done

\* the entries the jobs have taken from the producer, in the producer's order
Taken == [i \in 1..ppos |-> i]

\* C23 as stated: whenever no job is running, the entries returned so far are
\* exactly the entries taken from the producer, in its order: every entry
\* taken is in the response of the job that took it.
C23_TakenEntriesAreReturned ==
    fpc = "idle" => returned = Taken

\* C23, amended: the entries returned so far, followed by those the running
\* job holds, are the entries taken from the producer in its order, without
\* those taken by a job that ended in an error of the producer; such a job
\* returns the error and none of the entries it took.
C23_NoLossBetweenFetches ==
    /\ returned \o (IF fpc = "idle" THEN <<>> ELSE entries)
         = SelectSeq(Taken, LAMBDA i : i \notin dropped)
    /\ (fpc = "idle" /\ freply.tag = "Err") => freply.entries = <<>>
    /\ (fpc = "idle" /\ dropped = {}) => returned = Taken

\* the first job stopped on a limit with the producer not yet exhausted, the
\* second resumed and returned the rest: all three entries, in order
C23_Witness ==
    /\ Replied
    /\ nfetch = 2
    /\ Len(prod) = 3
    /\ returned = <<1, 2, 3>>
    /\ Len(freply.entries) \in {1, 2}
    /\ dropped = {}

\* C24 as stated: a response has done = true whenever the producer is
\* exhausted when the response is built, and done = false when the job
\* stopped on the byte budget with entries left in the producer.
C24_DoneWhenExhausted ==
    Replied =>
      /\ ppos = Len(prod) => freply.done
      /\ (ppos < Len(prod) /\ SizeOf(freply.entries) >= max_total_size)
           => ~freply.done

\* C24, amended: a response has done = true exactly when the job asked the
\* producer for one more entry and was told there is none, that is when the
\* producer is exhausted and neither limit had been reached; a job that stops
\* on max_count or on the byte budget answers done = false, also when it has
\* just taken the producer's last entry and when max_count = 0.
C24_DoneWhenExhaustionSeen ==
    Replied =>
      (freply.done <=> /\ ppos = Len(prod)
                       /\ Len(freply.entries) < max_count
                       /\ SizeOf(freply.entries) < max_total_size)

\* the job took the producer's last entry as its max_count-th, within the byte
\* budget, and answered done = false although the producer is exhausted
C24_Witness ==
    /\ Replied
    /\ Len(prod) > 1
    /\ ppos = Len(prod)
    /\ returned = Taken
    /\ Len(freply.entries) = max_count
    /\ SizeOf(freply.entries) < max_total_size
    /\ ~freply.done

(***************************************************************************)
(* Properties of DumpStream.                                               *)
(***************************************************************************)
\* what poll_next has yielded after the items of the inner stream
AfterInner == SubSeq(dout, dpos + 1, Len(dout))

\* C25: poll_next yields the items of the inner stream first, in order; it
\* takes the exporter task's result only once the inner stream has
\* terminated; while the task runs a poll is pending; a task that returned an
\* error or panicked gives exactly one Err item, a task that succeeded gives
\* the end of the stream; and every poll after that gives the end of the
\* stream again, never a second error.
C25_DumpStreamOrder ==
    [][/\ Len(dout') >= dpos'
       /\ \A i \in 1..dpos' : dout'[i] = Forwarded(i)
       /\ AfterInner' # <<>> => (dterm' /\ dpos' = Len(dall) /\ ~join_handle')
       /\ ~join_handle' => (dterm' /\ task # "running" /\ AfterInner' # <<>>)
       /\ \A i \in 2..Len(AfterInner') : AfterInner'[i] = End
       /\ AfterInner' # <<>> =>
            AfterInner'[1] = IF task = "err" THEN TaskErr("err")
                             ELSE IF task = "panic" THEN TaskErr("Dump task crashed")
                             ELSE End
       /\ (npolls' # npolls /\ dterm') =>
            (dlast' = PollPending <=> (join_handle /\ task = "running"))]_vars

\* both items of the inner stream were forwarded, a poll was pending while the
\* task ran, the task's error came as one item and the poll after it gave
\* the end of the stream
C25_Witness ==
    /\ Len(dall) = 2
    /\ task = "err"
    /\ npolls = 5
    /\ dout = <<Forwarded(1), Forwarded(2), TaskErr("err"), End>>
    /\ dlast = End

====
